---- MODULE Spec2Model ----
(***************************************************************************)
(* A model of the settlement generator of world/src/site/settlement/mod.rs *)
(* : the Land tile grid with its plot arena, region growth, path search    *)
(* and path writing, and the Settlement generation pipeline.               *)
(*                                                                         *)
(* Vec2<i32> is a pair <<x, y>>.  Option<T> is a sequence of length at     *)
(* most one: None is <<>> and Some(x) is <<x>>.  Id<T> of a Store<T> is    *)
(* the position of the entry in the store (a sequence), counted from 1.    *)
(***************************************************************************)
EXTENDS Integers, Sequences, FiniteSets, TLC

VARIABLES
    this,   \* the Settlement under construction (origin, land, farms, structures, town)
    ctx,    \* GenCtx: the world oracle sim and the random source rng
    twin,   \* a second run of generate on the same inputs
    pc,     \* the position of the running operation
    call,   \* the arguments of the running operation
    frame,  \* the local variables of the running operation
    ret     \* the value the operation returned

vars == <<this, ctx, twin, pc, call, frame, ret>>

----------------------------------------------------------------------------
(* Option and Vec2 *)

None == <<>>

Some(x) == <<x>>

Vec2(x, y) == <<x, y>>

VAdd(a, b) == <<a[1] + b[1], a[2] + b[2]>>

VSub(a, b) == <<a[1] - b[1], a[2] - b[2]>>

Abs(e) == IF e < 0 THEN -e ELSE e

Max(a, b) == IF a < b THEN b ELSE a

Min(a, b) == IF a < b THEN a ELSE b

\* tile.map(|e| e.abs()).reduce_max()
ReduceMaxAbs(v) == Max(Abs(v[1]), Abs(v[2]))

----------------------------------------------------------------------------
(* Plot, Tile, Land *)

AREA_SIZE == 32

PlotHazard == [kind |-> "Hazard"]

PlotDirt == [kind |-> "Dirt"]

PlotTown(district) == [kind |-> "Town", district |-> district]

PlotField(farm, seed, crop) == [kind |-> "Field", farm |-> farm, seed |-> seed, crop |-> crop]

\* The four cardinal directions, in the order the way slots of a Tile use.
CARDINALS == << <<0, 1>>, <<1, 0>>, <<0, -1>>, <<-1, 0>> >>

Tile(plot) == [plot |-> plot, ways |-> <<None, None, None, None>>, tower |-> None]

\* Tile::contains
TileContains(tile, kind) == \E i \in 1..4 : tile.ways[i] = Some(kind)

\* Land::new: the arena holds the Hazard plot alone, and no tile exists.
LandNew == [tiles |-> <<>>, plots |-> <<PlotHazard>>, hazard |-> 1]

\* Land::tile_at
tile_at(land, pos) ==
    IF pos \in DOMAIN land.tiles THEN Some(land.tiles[pos]) ELSE None

\* Land::plot_at
plot_at(land, pos) ==
    IF pos \in DOMAIN land.tiles
    THEN Some(land.plots[land.tiles[pos].plot])
    ELSE None

\* HashMap::insert on the tile map
TilesInsert(tiles, pos, tile) ==
    [p \in (DOMAIN tiles) \cup {pos} |-> IF p = pos THEN tile ELSE tiles[p]]

\* The tile gets the id after the one given
LandSetNextId(land, pos, plot) ==
    [land EXCEPT !.tiles = TilesInsert(land.tiles, pos, Tile(plot + 1))]

\* The tile that is there keeps its markers and only changes its plot
LandSetKeepWays(land, pos, plot) ==
    IF pos \in DOMAIN land.tiles
    THEN [land EXCEPT !.tiles[pos].plot = plot]
    ELSE [land EXCEPT !.tiles = TilesInsert(land.tiles, pos, Tile(plot))]

\* Land::set
LandSet(land, pos, plot) ==
    [land EXCEPT !.tiles = TilesInsert(land.tiles, pos, Tile(plot))]

\* Land::new_plot and Store::insert on the plot arena; the new id is Len(plots) + 1
new_plot(land, plot) == [land EXCEPT !.plots = Append(land.plots, plot)]

\* A predicate over Option<&Plot> is the set of the plot kinds it admits,
\* "None" standing for the absent plot.
KindOf(optPlot) == IF optPlot = None THEN "None" ELSE optPlot[1].kind

AllKinds == {"None", "Hazard", "Dirt", "Grass", "Water", "Town", "Field"}

MatchFn(match_fn, optPlot) == KindOf(optPlot) \in match_fn

----------------------------------------------------------------------------
(* Land::grow_from *)

\* dirs with one entry that is no unit step
GrowDirsNoUnitStep == << <<1, 0>>, <<-1, 0>>, <<0, 2>>, <<0, -1>> >>

\* let dirs = [...]
GrowDirs == << <<1, 0>>, <<-1, 0>>, <<0, 1>>, <<0, -1>> >>

\* The locals of grow_from before the loop: open holds start, closed is empty.
GrowStart(start) == [open |-> <<start>>, closed |-> {}]

\* The loop condition with <= for <
GrowContinuesInclusive(g, max_size) == Len(g.open) + Cardinality(g.closed) <= max_size

\* The loop condition: open.len() + closed.len() < max_size
GrowContinues(g, max_size) == Len(g.open) + Cardinality(g.closed) < max_size

\* The neighbours of next_pos pushed on open, in the order of dirs
RECURSIVE GrowPush(_, _, _, _, _)
GrowPush(land, closed, next_pos, match_fn, i) ==
    IF i > Len(GrowDirs) THEN <<>>
    ELSE LET neighbor == VAdd(next_pos, GrowDirs[i])
             rest == GrowPush(land, closed, next_pos, match_fn, i + 1)
         IN  IF neighbor \notin closed /\ MatchFn(match_fn, plot_at(land, neighbor))
             THEN <<neighbor>> \o rest
             ELSE rest

\* One iteration that leaves next_pos in the queue
GrowIterKeepsHead(land, g, match_fn) ==
    LET next_pos == Head(g.open)
        closed == g.closed \cup {next_pos}
    IN  [open |-> g.open \o GrowPush(land, closed, next_pos, match_fn, 1),
         closed |-> closed]

\* One iteration of the loop with a non-empty open queue
GrowIter(land, g, match_fn) ==
    LET next_pos == Head(g.open)
        closed == g.closed \cup {next_pos}
    IN  [open |-> Tail(g.open) \o GrowPush(land, closed, next_pos, match_fn, 1),
         closed |-> closed]

SeqRange(s) == {s[i] : i \in DOMAIN s}

\* The visited coordinates alone, without the queued ones
GrowResultClosedOnly(g) == g.closed

\* closed.into_iter().chain(open.into_iter()).collect()
GrowResult(g) == g.closed \cup SeqRange(g.open)

RECURSIVE GrowLoop(_, _, _, _)
GrowLoop(land, g, max_size, match_fn) ==
    IF GrowContinues(g, max_size) /\ g.open # <<>>
    THEN GrowLoop(land, GrowIter(land, g, match_fn), max_size, match_fn)
    ELSE g

grow_from(land, start, max_size, match_fn) ==
    GrowResult(GrowLoop(land, GrowStart(start), max_size, match_fn))

----------------------------------------------------------------------------
(* Land::write_path *)

\* The way slots taken in the order of CARDINALS: +y, +x, -y, -x
WayIdxCardinals(dir) ==
    IF dir[2] > 0 THEN Some(0)
    ELSE IF dir[1] > 0 THEN Some(1)
    ELSE IF dir[2] < 0 THEN Some(2)
    ELSE IF dir[1] < 0 THEN Some(3)
    ELSE None

\* The way slot (counted from 0) of a step of delta dir: the sign of dir.y decides
\* first, then the sign of dir.x; None, and the pair is skipped, when dir is zero
WayIdx(dir) ==
    IF dir[2] > 0 THEN Some(1)
    ELSE IF dir[1] > 0 THEN Some(2)
    ELSE IF dir[2] < 0 THEN Some(3)
    ELSE IF dir[1] < 0 THEN Some(0)
    ELSE None

\* if self.tile_at(tiles[0]).is_none() { self.set(tiles[0], self.hazard); }
EnsureTile(land, pos) ==
    IF tile_at(land, pos) = None THEN LandSet(land, pos, land.hazard) ELSE land

\* The marker is written whether or not the slot is taken
SetWayAlways(land, pos, slot, kind, permit_fn, overwrite) ==
    IF pos \in DOMAIN land.tiles /\ land.plots[land.tiles[pos].plot].kind \in permit_fn
    THEN [land EXCEPT !.tiles[pos].ways[slot + 1] = Some(kind)]
    ELSE land

\* self.tiles.get_mut(&pos).filter(|tile| permit_fn(plots.get(tile.plot))).map(|tile|
\*     if overwrite || tile.ways[slot].is_none() { tile.ways[slot] = Some(kind); })
SetWay(land, pos, slot, kind, permit_fn, overwrite) ==
    IF /\ pos \in DOMAIN land.tiles
       /\ land.plots[land.tiles[pos].plot].kind \in permit_fn
       /\ (overwrite \/ land.tiles[pos].ways[slot + 1] = None)
    THEN [land EXCEPT !.tiles[pos].ways[slot + 1] = Some(kind)]
    ELSE land

\* The window writes its marker on the first tile only
WritePathWindowNearOnly(land, t0, t1, kind, permit_fn, overwrite) ==
    LET idx == WayIdx(VSub(t1, t0))
    IN  IF idx = None THEN land
        ELSE SetWay(EnsureTile(land, t0), t0, idx[1], kind, permit_fn, overwrite)

\* The body of the loop over tiles.windows(2), for the window <<t0, t1>>
WritePathWindow(land, t0, t1, kind, permit_fn, overwrite) ==
    LET idx == WayIdx(VSub(t1, t0))
    IN  IF idx = None THEN land
        ELSE LET placed == EnsureTile(land, t0)
                 far == SetWay(placed, t1, (idx[1] + 2) % 4, kind, permit_fn, overwrite)
             IN  SetWay(far, t0, idx[1], kind, permit_fn, overwrite)

RECURSIVE WritePathFrom(_, _, _, _, _, _)
WritePathFrom(land, tiles, i, kind, permit_fn, overwrite) ==
    IF i + 1 > Len(tiles) THEN land
    ELSE WritePathFrom(
             WritePathWindow(land, tiles[i], tiles[i + 1], kind, permit_fn, overwrite),
             tiles, i + 1, kind, permit_fn, overwrite)

write_path(land, tiles, kind, permit_fn, overwrite) ==
    WritePathFrom(land, tiles, 1, kind, permit_fn, overwrite)

----------------------------------------------------------------------------
(* Land::find_path and the search it runs (common::astar::Astar)           *)
(*                                                                         *)
(* A cost is an f32 that the code builds from whole transition costs and   *)
(* one Euclidean distance, so a cost is kept here as a pair <<g, n>> that  *)
(* stands for g + sqrt(n), and two costs are compared exactly.             *)

\* g1 + sqrt(n1) < g2 + sqrt(n2), for integers g1, g2 and naturals n1, n2
CostLess(a, b) ==
    LET c == b[1] - a[1]
    IN  IF c >= 0
        THEN LET l == a[2] - b[2] - c * c
             IN  IF l < 0 THEN c > 0 \/ a[2] < b[2]
                 ELSE l * l < 4 * c * c * b[2]
        ELSE LET r == b[2] - a[2] - c * c
             IN  r > 0 /\ 4 * c * c * a[2] < r * r

\* let heuristic = |pos| (pos - dest).map(|e| e as f32).magnitude(): the square of it
FindPathHeuristic(pos, dest) ==
    (pos[1] - dest[1]) * (pos[1] - dest[1]) + (pos[2] - dest[2]) * (pos[2] - dest[2])

\* neighbors that also step along a diagonal
FindPathNeighborsDiagonal(pos) == [i \in 1..4 |-> VAdd(pos, IF i = 1 THEN <<1, 1>> ELSE CARDINALS[i])]

\* let neighbors = |pos| CARDINALS.iter().map(move |dir| pos + *dir)
FindPathNeighbors(pos) == [i \in 1..4 |-> VAdd(pos, CARDINALS[i])]

\* The cost function of place_paths (the caller of find_path with a cost that
\* reads the tiles), and |_, _| 1.0
PathCostFn(land, cost_fn, from, to) ==
    IF cost_fn = "uniform" THEN 1
    ELSE IF to # None /\ land.plots[to[1].plot] = PlotDirt THEN 0
    ELSE IF to # None /\ land.plots[to[1].plot] = [kind |-> "Water"] THEN 20
    ELSE IF to # None /\ land.plots[to[1].plot] = PlotHazard THEN 50
    ELSE IF from # None /\ to # None /\ TileContains(from[1], "Wall")
         THEN IF TileContains(to[1], "Wall") THEN 1000 ELSE 10
    ELSE IF from # None /\ to # None THEN 1
    ELSE 1000

\* let transition = |from, to| path_cost_fn(self.tile_at(*from), self.tile_at(*to))
FindPathTransition(land, cost_fn, from, to) ==
    PathCostFn(land, cost_fn, tile_at(land, from), tile_at(land, to))

\* satisfied that compares one coordinate only
FindPathSatisfiedX(pos, dest) == pos[1] = dest[1]

\* let satisfied = |pos| *pos == dest
FindPathSatisfied(pos, dest) == pos = dest

\* The budget given to Astar::new and to poll
FindPathMaxIters == 250

\* Astar::new(max_iters, start, heuristic, hasher)
AstarNew(start, dest) ==
    [iter |-> 0,
     potential_nodes |-> << [node |-> start, cost |-> <<0, FindPathHeuristic(start, dest)>>] >>,
     came_from |-> <<>>,
     cheapest_scores |-> [p \in {start} |-> 0],
     visited |-> {start}]

\* BinaryHeap::push.  The heap is kept as a sequence in the order in which pop
\* takes the entries: by cost, the earliest pushed first among equals.
HeapPush(nodes, entry) ==
    LET before == Cardinality({j \in DOMAIN nodes : ~CostLess(entry.cost, nodes[j].cost)})
    IN  SubSeq(nodes, 1, before) \o <<entry>> \o SubSeq(nodes, before + 1, Len(nodes))

FnPut(f, k, v) == [x \in (DOMAIN f) \cup {k} |-> IF x = k THEN v ELSE f[x]]

\* The expansion of `node`: each neighbour reached at a lower cost than known
\* gets `node` as its origin and the new cost, and is pushed unless it was
\* pushed before
RECURSIVE AstarExpand(_, _, _, _, _, _)
AstarExpand(a, land, cost_fn, dest, node, i) ==
    IF i > 4 THEN a
    ELSE LET neighbor == FindPathNeighbors(node)[i]
             cost == a.cheapest_scores[node] + FindPathTransition(land, cost_fn, node, neighbor)
             better == neighbor \notin DOMAIN a.cheapest_scores
                           \/ cost < a.cheapest_scores[neighbor]
             next == IF better
                     THEN [a EXCEPT
                              !.came_from = FnPut(a.came_from, neighbor, node),
                              !.cheapest_scores = FnPut(a.cheapest_scores, neighbor, cost),
                              !.visited = a.visited \cup {neighbor},
                              !.potential_nodes =
                                  IF neighbor \in a.visited THEN a.potential_nodes
                                  ELSE HeapPush(a.potential_nodes,
                                                [node |-> neighbor,
                                                 cost |-> <<cost, FindPathHeuristic(neighbor, dest)>>])]
                     ELSE a
         IN  AstarExpand(next, land, cost_fn, dest, node, i + 1)

\* The path to `node`, rebuilt backwards along came_from
RECURSIVE AstarPathTo(_, _)
AstarPathTo(came_from, node) ==
    IF node \in DOMAIN came_from
    THEN Append(AstarPathTo(came_from, came_from[node]), node)
    ELSE <<node>>

\* The node that the next iteration of poll takes from potential_nodes
AstarTop(a) == Head(a.potential_nodes).node

\* poll goes on: the budget is not used up and the last node taken was no goal
AstarRuns(a) == a.iter < FindPathMaxIters /\ a.potential_nodes # <<>>

\* One iteration of poll on a node that does not satisfy the goal
AstarIter(a, land, cost_fn, dest) ==
    LET node == AstarTop(a)
        popped == [a EXCEPT !.potential_nodes = Tail(a.potential_nodes)]
        expanded == AstarExpand(popped, land, cost_fn, dest, node, 1)
    IN  [expanded EXCEPT !.iter = a.iter + 1]

----------------------------------------------------------------------------
(* The random source, the spiral and the world oracle                      *)

\* rng: &mut impl Rng is a stream fixed by its seed; rng.n draws were made.
\* The n-th value of the stream of `seed`:
StreamValue(seed, n) ==
    LET m == n % 8191
    IN  (((m * m) % 8191) * 17 + m * (2 * seed + 3) * 29 + seed * 4099 + 11) % 8191

\* rng.gen()
Gen(rng) == StreamValue(rng.seed, rng.n)

\* rng.gen_range(low, high)
GenRange(rng, low, high) == low + (StreamValue(rng.seed, rng.n) % (high - low))

\* The source after k draws
Drawn(rng, k) == [rng EXCEPT !.n = @ + k]

\* Spiral2d: the number of positions of a layer
SpiralLayerSize(layer) == Max(layer * 8 + 4 * Min(layer, 1) - 4, 1)

Clamp(e, lo, hi) == Min(Max(e, lo), hi)

\* Spiral2d: the i-th position of a layer; a layer is the ring of the positions
\* at one Chebyshev distance from the centre
SpiralAt(layer, i) ==
    LET q == SpiralLayerSize(layer) \div 4
    IN  <<-layer + Clamp(i, 0, layer * 2) - Clamp(i - q * 2, 0, layer * 2),
          -layer + Clamp(i - q, 0, layer * 2) - Clamp(i - q * 3, 0, layer * 2)>>

\* The layer of the n-th position of the spiral, n counted from 0
SpiralLayerOf(n) == CHOOSE k \in 0..n : (2 * k - 1) * (2 * k - 1) <= n /\ n < (2 * k + 1) * (2 * k + 1)

\* Spiral2d::new().nth(n)
Spiral2d(n) ==
    IF n = 0 THEN <<0, 0>>
    ELSE LET k == SpiralLayerOf(n) IN SpiralAt(k, n - (2 * k - 1) * (2 * k - 1))

\* The spiral searches of the model look at the layers up to this one
MaxSearchLayer == 40

\* Land::find_tile_near from layer `layer` on: the first position of the spiral
\* around origin whose plot satisfies match_fn
RECURSIVE FindTileFrom(_, _, _, _)
FindTileFrom(land, origin, match_fn, layer) ==
    IF layer > MaxSearchLayer THEN None
    ELSE LET hits == {i \in 0..(SpiralLayerSize(layer) - 1) :
                         MatchFn(match_fn, plot_at(land, VAdd(origin, SpiralAt(layer, i))))}
         IN  IF hits = {} THEN FindTileFrom(land, origin, match_fn, layer + 1)
             ELSE Some(VAdd(origin, SpiralAt(layer, CHOOSE i \in hits : \A j \in hits : i <= j)))

\* Land::find_tile_near
find_tile_near(land, origin, match_fn) == FindTileFrom(land, origin, match_fn, 0)

\* TerrainChunkSize::RECT_SIZE.x
RECT_SIZE == 32

\* WorldSim::can_host_settlement: the worlds drawn are one that hosts nowhere,
\* one that hosts everywhere and one with a river over the chunks west of x = -2
can_host_settlement(sim, cpos) ==
    CASE sim = "reject_all" -> FALSE
      [] sim = "accept_all" -> TRUE
      [] sim = "river_west" -> cpos[1] >= -2

\* WorldSim::get_nearest_path: the distance to the nearest path of the world;
\* the world with the river has a path along x = 100
get_nearest_path(sim, wpos) ==
    IF sim = "river_west" THEN Some(Abs(wpos[1] - 100)) ELSE None

----------------------------------------------------------------------------
(* Settlement::generate.  A run is [this |-> the Settlement, rng |-> the   *)
(* random source, order |-> the order in which its hash sets iterate];    *)
(* each operation maps a run to the run after it.                         *)

\* Settlement::radius
Radius == 400

\* let tile_radius = self.radius() as i32 / AREA_SIZE as i32
TileRadius == Radius \div AREA_SIZE

\* The Settlement that generate builds before it runs the stages; the name, the
\* seed, the sampler of the land and the noise take one draw each
SettlementNew(wpos, rng) ==
    [seed |-> Gen(Drawn(rng, 1)), origin |-> wpos, land |-> LandNew, farms |-> <<>>,
     structures |-> <<>>, town |-> None]

\* The sub-points of the cell of `tile` that designate_from_world asks the world about
DesignateChunks(origin, tile) ==
    {<<(origin[1] + tile[1] * AREA_SIZE + (x * AREA_SIZE) \div 2) \div RECT_SIZE,
       (origin[2] + tile[2] * AREA_SIZE + (y * AREA_SIZE) \div 2) \div RECT_SIZE>> :
        x \in 0..3, y \in 0..3}

\* The cell is a hazard only if the world refuses it and the draw is 0 as well
DesignateTileBoth(run, sim, tile) ==
    LET refused == \E cpos \in DesignateChunks(run.this.origin, tile) :
                       ~can_host_settlement(sim, cpos)
    IN  IF refused /\ GenRange(run.rng, 0, 16) = 0
        THEN [run EXCEPT !.this.land = LandSet(@, tile, @.hazard),
                         !.rng = Drawn(@, 1)]
        ELSE [run EXCEPT !.rng = Drawn(@, 1)]

\* The body of the for_each of designate_from_world: the cell is a hazard if the
\* world refuses one of its sub-points, or else if the draw gen_range(0, 16) is 0
DesignateTile(run, sim, tile) ==
    LET refused == \E cpos \in DesignateChunks(run.this.origin, tile) :
                       ~can_host_settlement(sim, cpos)
    IN  IF refused
        THEN [run EXCEPT !.this.land = LandSet(@, tile, @.hazard)]
        ELSE IF GenRange(run.rng, 0, 16) = 0
             THEN [run EXCEPT !.this.land = LandSet(@, tile, @.hazard),
                              !.rng = Drawn(@, 1)]
             ELSE [run EXCEPT !.rng = Drawn(@, 1)]

\* take_while(|tile| tile.map(|e| e.abs()).reduce_max() < tile_radius)
DesignateTakes(tile) == ReduceMaxAbs(tile) < TileRadius

\* The key by which a hash set of coordinates is put in order
HashKey(pos) == pos[1] * 1024 + pos[2]

\* The element a hash set yields first: the one of the least key in the order
\* "asc", the one of the greatest key in the order "desc"
HashFirst(set, order) ==
    CHOOSE pos \in set :
        \A other \in set :
            IF order = "asc" THEN HashKey(pos) <= HashKey(other)
            ELSE HashKey(other) <= HashKey(pos)

\* for pos in tiles { self.land.set(pos, plot) }
RECURSIVE SetEach(_, _, _, _)
SetEach(land, tiles, plot, order) ==
    IF tiles = {} THEN land
    ELSE LET pos == HashFirst(tiles, order)
         IN  SetEach(LandSet(land, pos, plot), tiles \ {pos}, plot, order)

\* Only the coordinate the set yields first is given the plot
FieldSetFirstTile(land, tiles, plot, order) ==
    IF tiles = {} THEN land ELSE LandSet(land, HashFirst(tiles, order), plot)

\* place_field: for pos in tiles.into_iter() { self.land.set(pos, field) }
FieldSetTiles(land, tiles, plot, order) == SetEach(land, tiles, plot, order)

MAX_FIELD_SIZE == 24

FARM_COUNT == 6

FIELDS_PER_FARM == 5

\* The crops a field draws from, in the order of the match of place_field
Crops == <<"Corn", "Wheat", "Cabbage", "Pumpkin", "Flax", "Carrot", "Tomato", "Radish">>

\* Settlement::place_field
place_field(run, farm, origin) ==
    LET center == find_tile_near(run.this.land, origin, {"None"})
    IN  IF center = None THEN run
        ELSE LET seed == Gen(run.rng)
                 crop == Crops[GenRange(Drawn(run.rng, 1), 0, 8) + 1]
                 land == new_plot(run.this.land, PlotField(farm, seed, crop))
                 field == Len(land.plots)
                 max_size == GenRange(Drawn(run.rng, 2), 5, MAX_FIELD_SIZE)
                 tiles == grow_from(land, center[1], max_size, {"None"})
             IN  [run EXCEPT !.this.land = FieldSetTiles(land, tiles, field, run.order),
                             !.rng = Drawn(@, 3)]

\* for _ in 0..FIELDS_PER_FARM { self.place_field(farmland, base_tile, ctx.rng) }
RECURSIVE PlaceFields(_, _, _, _)
PlaceFields(run, farm, base_tile, n) ==
    IF n = FIELDS_PER_FARM THEN run
    ELSE PlaceFields(place_field(run, farm, base_tile), farm, base_tile, n + 1)

\* One iteration of the loop of place_farms
PlaceFarmIter(run) ==
    LET base_tile == find_tile_near(run.this.land, <<0, 0>>, {"None"})
    IN  IF base_tile = None THEN run
        ELSE LET withFarm == [run EXCEPT !.this.farms = Append(@, [base_tile |-> base_tile[1]])]
             IN  PlaceFields(withFarm, Len(withFarm.this.farms), base_tile[1], 0)

\* Town: the half of the side of the square of tiles a town covers
TownRadius == 3

\* A town around base_tile of two districts, which split the square of the half
\* side `radius` about base_tile at a drawn column
TownOfRadius(base_tile, rng, radius) ==
    LET lo == VSub(base_tile, <<radius, radius>>)
        hi == VAdd(base_tile, <<radius, radius>>)
        split == base_tile[1] + GenRange(rng, -1, 2)
    IN  [town |-> [base_tile |-> base_tile,
                   districts |-> << [aabr |-> [min |-> lo, max |-> <<split, hi[2]>>], alt |-> 0],
                                    [aabr |-> [min |-> <<split, lo[2]>>, max |-> hi], alt |-> 0] >>],
         rng |-> Drawn(rng, 1)]

\* Town::generate: a town of the half side TownRadius
TownGenerate(origin, base_tile, rng) == TownOfRadius(base_tile, rng, TownRadius)

\* Every cell of the aabr of a district, the hazards too
DistrictCellsAll(land, aabr) ==
    (aabr.min[1]..(aabr.max[1] - 1)) \X (aabr.min[2]..(aabr.max[2] - 1))

\* The cells of a district that place_town gives the plot of the district: those
\* of its aabr, max excluded, whose plot is not Hazard
DistrictCells(land, aabr) ==
    {pos \in (aabr.min[1]..(aabr.max[1] - 1)) \X (aabr.min[2]..(aabr.max[2] - 1)) :
        KindOf(plot_at(land, pos)) # "Hazard"}

\* for (id, district) in town.districts().iter(), from the district `id` on
RECURSIVE PlaceDistricts(_, _, _)
PlaceDistricts(land, districts, id) ==
    IF id > Len(districts) THEN land
    ELSE LET withPlot == new_plot(land, PlotTown(Some(id)))
             district_plot == Len(withPlot.plots)
         IN  PlaceDistricts(
                 SetEach(withPlot, DistrictCells(withPlot, districts[id].aabr),
                         district_plot, "asc"),
                 districts, id + 1)

PLOT_COUNT == 3

\* for i in 0..PLOT_COUNT of place_town, from the iteration i on
RECURSIVE PlaceTownFrom(_, _, _)
PlaceTownFrom(run, origin, i) ==
    IF i = PLOT_COUNT THEN run
    ELSE LET base_tile == find_tile_near(run.this.land, origin, {"Field", "Dirt"})
         IN  IF base_tile # None /\ i = 0
             THEN LET gen == TownGenerate(run.this.origin, base_tile[1], run.rng)
                  IN  PlaceTownFrom(
                          [run EXCEPT !.this.land = PlaceDistricts(@, gen.town.districts, 1),
                                      !.this.town = Some(gen.town),
                                      !.rng = gen.rng],
                          base_tile[1], i + 1)
             ELSE PlaceTownFrom(run, origin, i + 1)

\* place_town followed by a path written from the town center to the cell east of it
PlaceTownWithPath(run) ==
    LET placed == PlaceTownFrom([run EXCEPT !.rng = Drawn(@, 2)],
                                <<GenRange(run.rng, -2, 3), GenRange(Drawn(run.rng, 1), -2, 3)>>, 0)
    IN  IF placed.this.town = None THEN placed
        ELSE LET base_tile == placed.this.town[1].base_tile
             IN  [placed EXCEPT !.this.land =
                     write_path(@, <<base_tile, VAdd(base_tile, <<1, 0>>)>>, "Path", AllKinds, FALSE)]

\* Settlement::place_town
place_town(run) ==
    PlaceTownFrom([run EXCEPT !.rng = Drawn(@, 2)],
                  <<GenRange(run.rng, -2, 3), GenRange(Drawn(run.rng, 1), -2, 3)>>, 0)

\* Building::generate: a building about pos whose half extents are drawn, those
\* of a Keep from a range above those of a House
BuildingGenerate(rng, kind, pos) ==
    LET lo == IF kind = "Keep" THEN 12 ELSE 5
        hi == IF kind = "Keep" THEN 20 ELSE 11
        half == <<GenRange(rng, lo, hi), GenRange(Drawn(rng, 1), lo, hi)>>
    IN  [building |-> [kind |-> kind, pos |-> pos,
                       bounds |-> [min |-> VSub(pos, half), max |-> VAdd(pos, half)]],
         rng |-> Drawn(rng, 2)]

\* Structure::bounds_2d
bounds_2d(structure) == structure.bounds

\* Aabr::collides_with_aabr: the rectangles overlap or touch on both axes
collides_with_aabr(a, b) ==
    /\ a.min[1] <= b.max[1] /\ a.max[1] >= b.min[1]
    /\ a.min[2] <= b.max[2] /\ a.max[2] >= b.min[2]

\* Only the structure placed last is compared with the candidate
CollidesWithLast(structures, bounds) ==
    /\ structures # <<>>
    /\ collides_with_aabr(bounds_2d(structures[Len(structures)]), bounds)

\* self.structures.iter().any(|s| s.bounds_2d().collides_with_aabr(bounds))
CollidesWithAny(structures, bounds) ==
    \E i \in 1..Len(structures) : collides_with_aabr(bounds_2d(structures[i]), bounds)

\* The attempts a slot of place_buildings makes
MaxAttempts == 25

\* The cells of the spiral about the town center that place_buildings visits
BuildingTiles == 256

\* The attempts do not look at the way markers of the tile
RECURSIVE PlaceAttemptsOnPaths(_, _, _, _, _)
PlaceAttemptsOnPaths(run, sim, tile, kind, n) ==
    IF n = MaxAttempts THEN run
    ELSE LET house_pos == <<tile[1] * AREA_SIZE + AREA_SIZE \div 2
                                + GenRange(run.rng, -(AREA_SIZE \div 4), AREA_SIZE \div 4),
                            tile[2] * AREA_SIZE + AREA_SIZE \div 2
                                + GenRange(Drawn(run.rng, 1), -(AREA_SIZE \div 4), AREA_SIZE \div 4)>>
             tile_pos == <<house_pos[1] \div AREA_SIZE, house_pos[2] \div AREA_SIZE>>
             drawn == [run EXCEPT !.rng = Drawn(@, 2)]
         IN  IF KindOf(plot_at(run.this.land, tile_pos)) # "Town"
             THEN PlaceAttemptsOnPaths(drawn, sim, tile, kind, n + 1)
             ELSE LET gen == BuildingGenerate(drawn.rng, kind, house_pos)
                      built == [drawn EXCEPT !.rng = gen.rng]
                  IN  IF CollidesWithAny(run.this.structures, bounds_2d(gen.building))
                      THEN PlaceAttemptsOnPaths(built, sim, tile, kind, n + 1)
                      ELSE [built EXCEPT !.this.structures = Append(@, gen.building)]

\* for _ in 0..25 of place_buildings, from the attempt n on
RECURSIVE PlaceAttempts(_, _, _, _, _)
PlaceAttempts(run, sim, tile, kind, n) ==
    IF n = MaxAttempts THEN run
    ELSE LET house_pos == <<tile[1] * AREA_SIZE + AREA_SIZE \div 2
                                + GenRange(run.rng, -(AREA_SIZE \div 4), AREA_SIZE \div 4),
                            tile[2] * AREA_SIZE + AREA_SIZE \div 2
                                + GenRange(Drawn(run.rng, 1), -(AREA_SIZE \div 4), AREA_SIZE \div 4)>>
             tile_pos == <<house_pos[1] \div AREA_SIZE, house_pos[2] \div AREA_SIZE>>
             drawn == [run EXCEPT !.rng = Drawn(@, 2)]
             tile_here == tile_at(run.this.land, tile_pos)
             on_path == IF tile_here = None THEN TRUE ELSE TileContains(tile_here[1], "Path")
             near_path == IF sim = None THEN FALSE
                          ELSE LET nearest == get_nearest_path(sim[1], VAdd(run.this.origin, house_pos))
                               IN  IF nearest = None THEN FALSE ELSE nearest[1] < 28
         IN  IF on_path \/ near_path THEN PlaceAttempts(drawn, sim, tile, kind, n + 1)
             ELSE IF KindOf(plot_at(run.this.land, tile_pos)) # "Town"
             THEN PlaceAttempts(drawn, sim, tile, kind, n + 1)
             ELSE LET gen == BuildingGenerate(drawn.rng, kind, house_pos)
                      built == [drawn EXCEPT !.rng = gen.rng]
                  IN  IF CollidesWithAny(run.this.structures, bounds_2d(gen.building))
                      THEN PlaceAttempts(built, sim, tile, kind, n + 1)
                      ELSE [built EXCEPT !.this.structures = Append(@, gen.building)]

\* The first slot of every cell builds a Keep
RECURSIVE PlaceSlotsKeepEverywhere(_, _, _, _, _)
PlaceSlotsKeepEverywhere(run, sim, tile, slots, i) ==
    IF i >= slots THEN run
    ELSE PlaceSlotsKeepEverywhere(
             PlaceAttempts(run, sim, tile, IF i = 0 THEN "Keep" ELSE "House", 0),
             sim, tile, slots, i + 1)

\* Every slot makes one attempt more
RECURSIVE PlaceSlotsExtraAttempt(_, _, _, _, _)
PlaceSlotsExtraAttempt(run, sim, tile, slots, i) ==
    IF i >= slots THEN run
    ELSE PlaceSlotsExtraAttempt(
             PlaceAttempts(run, sim, tile,
                           IF tile = run.this.town[1].base_tile /\ i = 0 THEN "Keep" ELSE "House",
                           -1),
             sim, tile, slots, i + 1)

\* for i in 0..ctx.rng.gen_range(2, 5) of place_buildings, from the slot i on
RECURSIVE PlaceSlots(_, _, _, _, _)
PlaceSlots(run, sim, tile, slots, i) ==
    IF i >= slots THEN run
    ELSE PlaceSlots(
             PlaceAttempts(run, sim, tile,
                           IF tile = run.this.town[1].base_tile /\ i = 0 THEN "Keep" ELSE "House",
                           0),
             sim, tile, slots, i + 1)

\* The body of the loop of place_buildings over the cells of the spiral, for the
\* n-th cell
PlaceBuildingsTile(run, sim, n) ==
    PlaceSlots([run EXCEPT !.rng = Drawn(@, 1)], sim,
               VAdd(run.this.town[1].base_tile, Spiral2d(n)),
               GenRange(run.rng, 2, 5), 0)

----------------------------------------------------------------------------
(* SpecGrow: grow_from run one loop iteration at a time, over the lands,   *)
(* starts, sizes and predicates drawn below.                               *)

\* The largest max_size drawn
MaxGrowSize == 13

\* The starts drawn
GrowStarts == {<<0, 0>>, <<1, 0>>}

\* The tiles around <<0, 0>> that a drawn land may hold
GrowRing == {<<1, 0>>, <<-1, 0>>, <<0, 1>>, <<0, -1>>}

\* The predicates drawn: plot.is_none(), the always-true predicate, and one
\* that admits absent tiles and fields
GrowMatchFns == {{"None"}, AllKinds, {"None", "Field"}}

\* The arena of a drawn land: the Hazard plot and one Field plot
GrowPlots == <<PlotHazard, PlotField(1, 0, "Corn")>>

\* The land that holds the tiles of GrowRing that `assign` gives a plot id
GrowLand(assign) ==
    [tiles |-> [p \in {q \in GrowRing : assign[q] # 0} |-> Tile(assign[p])],
     plots |-> GrowPlots,
     hazard |-> 1]

\* A Settlement around a land
SettlementOf(land) ==
    [seed |-> 0, origin |-> <<0, 0>>, land |-> land, farms |-> <<>>,
     structures |-> <<>>, town |-> None]

GrowInit ==
    /\ ctx = None
    /\ twin = None
    /\ \E assign \in [GrowRing -> 0..2] : this = SettlementOf(GrowLand(assign))
    /\ \E start \in GrowStarts, max_size \in 0..MaxGrowSize, match_fn \in GrowMatchFns :
          /\ call = [op |-> "grow_from", start |-> start, max_size |-> max_size,
                     match_fn |-> match_fn]
          /\ frame = GrowStart(start)
    /\ pc = "grow_loop"
    /\ ret = None

\* while open.len() + closed.len() < max_size { if let Some(next_pos) = open.pop_front() ... }
GrowStep ==
    /\ pc = "grow_loop"
    /\ GrowContinues(frame, call.max_size)
    /\ frame.open # <<>>
    /\ frame' = GrowIter(this.land, frame, call.match_fn)
    /\ UNCHANGED <<this, pc, call, ret>>
    /\ UNCHANGED <<ctx, twin>>

\* The loop ends (the bound is reached, or open is empty) and the set is returned
GrowReturn ==
    /\ pc = "grow_loop"
    /\ ~(GrowContinues(frame, call.max_size) /\ frame.open # <<>>)
    /\ ret' = Some(GrowResult(frame))
    /\ pc' = "grow_done"
    /\ UNCHANGED <<this, call, frame>>
    /\ UNCHANGED <<ctx, twin>>

GrowNext == GrowStep \/ GrowReturn

SpecGrow == GrowInit /\ [][GrowNext]_vars

GrowDone == pc = "grow_done"

\* What grow_from returned
GrowRet == ret[1]

\* The coordinates of `set` joined to `from` by a chain of 4-adjacent members of `set`
RECURSIVE ConnectedTo(_, _)
ConnectedTo(reached, set) ==
    LET more == {p \in set : \E q \in reached, i \in 1..4 : p = VAdd(q, CARDINALS[i])}
    IN  IF more \subseteq reached THEN reached ELSE ConnectedTo(reached \cup more, set)

\* grow_from ran with the always-true predicate
GrowAlwaysTrue == GrowDone /\ call.match_fn = AllKinds

\* C4 as claimed: with the always-true predicate every coordinate is reachable, so
\* min(N, reachable tiles) is N and the returned set has exactly N coordinates.
C4_SizeIsExactlyN == GrowAlwaysTrue => Cardinality(GrowRet) = call.max_size

\* C4 amended: with the always-true predicate the returned set holds start, has one
\* coordinate when N <= 1, and at least 5 and at most N + 3 coordinates when N >= 2.
C4_SizeBounds ==
    GrowAlwaysTrue =>
        /\ call.start \in GrowRet
        /\ call.max_size <= 1 => Cardinality(GrowRet) = 1
        /\ call.max_size >= 2 =>
              /\ Cardinality(GrowRet) >= 5
              /\ Cardinality(GrowRet) <= call.max_size + 3

\* grow_from returned fewer coordinates than the 13 asked for: the queue held repeats
C4_Witness == GrowAlwaysTrue /\ call.max_size = 13 /\ Cardinality(GrowRet) = 12

\* C5: every coordinate grow_from returns is joined to start by a chain of 4-adjacent
\* coordinates of the returned set, for every start, max_size and predicate.
C5_Connected == GrowDone => ConnectedTo({call.start}, GrowRet) = GrowRet

\* a region grown around tiles the predicate refuses
C5_Witness ==
    /\ GrowDone
    /\ call.match_fn = {"None"}
    /\ Cardinality(DOMAIN this.land.tiles) >= 2
    /\ Cardinality(GrowRet) >= 6

\* C6: on a land with no tiles, grow_from(start, 5, always-true) returns exactly 5
\* coordinates, for every start.
C6_FiveOnEmptyLand ==
    (GrowAlwaysTrue /\ DOMAIN this.land.tiles = {} /\ call.max_size = 5)
        => Cardinality(GrowRet) = 5

C6_Witness ==
    /\ GrowAlwaysTrue
    /\ DOMAIN this.land.tiles = {}
    /\ call.max_size = 5
    /\ call.start = <<1, 0>>
    /\ GrowRet = {<<1, 0>>, <<2, 0>>, <<0, 0>>, <<1, 1>>, <<1, -1>>}

\* open.len() + closed.len() of the locals of grow_from
GrowCount(g) == Len(g.open) + Cardinality(g.closed)

\* C26: for every start, predicate and max_size the queued count plus the visited
\* count never passes max_size + 3, the loop ends only when that count has reached
\* max_size or the queue is empty, and the returned set has at most max_size + 3
\* coordinates.
C26_AtMostMaxSizePlusThree ==
    /\ GrowCount(frame) <= call.max_size + 3
    /\ GrowDone =>
          /\ GrowCount(frame) >= call.max_size \/ frame.open = <<>>
          /\ Cardinality(GrowRet) <= call.max_size + 3

\* the first iteration queues four neighbours, a Field tile among them, and the loop
\* stops at max_size + 3 coordinates
C26_Witness ==
    /\ GrowDone
    /\ call.match_fn = {"None", "Field"}
    /\ call.max_size = 2
    /\ \E pos \in GrowRet \cap DOMAIN this.land.tiles :
          KindOf(plot_at(this.land, pos)) = "Field"
    /\ GrowCount(frame) = call.max_size + 3
    /\ Cardinality(GrowRet) = call.max_size + 3

----------------------------------------------------------------------------
(* SpecLand: the operations of Land that change it (new_plot, set and      *)
(* write_path), called in any order on a Land that starts as Land::new     *)
(* leaves it.  The land before a call is kept in frame until the caller    *)
(* goes on.                                                                *)

\* The largest number of plots in the arena
MaxPlots == 2

\* The longest coordinate sequence given to write_path
MaxPathLen == 2

\* The coordinates the calls name
LandCoords == {<<0, 0>>, <<1, 0>>, <<1, 1>>}

WayKinds == {"Path", "Wall"}

PlotKinds == AllKinds \ {"None"}

\* The admission predicates drawn for write_path: |_| true, and one that refuses
\* the Hazard plot
PermitFns == {PlotKinds, PlotKinds \ {"Hazard"}}

\* The coordinate sequences of length 2 to MaxPathLen
LandPaths == UNION {[1..n -> LandCoords] : n \in 2..MaxPathLen}

LandInit ==
    /\ ctx = None
    /\ twin = None
    /\ this = SettlementOf(LandNew)
    /\ pc = "idle"
    /\ call = None
    /\ frame = None
    /\ ret = None

\* Land::new_plot
LandNewPlot ==
    /\ pc = "idle"
    /\ Len(this.land.plots) < MaxPlots
    /\ call' = Some([op |-> "new_plot", plot |-> PlotDirt])
    /\ frame' = Some(this.land)
    /\ this' = [this EXCEPT !.land = new_plot(this.land, PlotDirt)]
    /\ ret' = Some(Len(this'.land.plots))
    /\ pc' = "returned"
    /\ UNCHANGED <<ctx, twin>>

\* Land::set.  Its callers pass an id that the arena returned: hazard, or the id
\* of a plot they have just inserted.
LandSetTile ==
    /\ pc = "idle"
    /\ \E pos \in LandCoords, plot \in 1..Len(this.land.plots) :
          /\ call' = Some([op |-> "set", pos |-> pos, plot |-> plot])
          /\ this' = [this EXCEPT !.land = LandSet(this.land, pos, plot)]
    /\ frame' = Some(this.land)
    /\ pc' = "returned"
    /\ UNCHANGED ret
    /\ UNCHANGED <<ctx, twin>>

\* Land::write_path
LandWritePath ==
    /\ pc = "idle"
    /\ \E tiles \in LandPaths, kind \in WayKinds, permit_fn \in PermitFns,
          overwrite \in BOOLEAN :
          /\ call' = Some([op |-> "write_path", tiles |-> tiles, kind |-> kind,
                           permit_fn |-> permit_fn, overwrite |-> overwrite])
          /\ this' = [this EXCEPT
                         !.land = write_path(this.land, tiles, kind, permit_fn, overwrite)]
    /\ frame' = Some(this.land)
    /\ pc' = "returned"
    /\ UNCHANGED ret
    /\ UNCHANGED <<ctx, twin>>

\* The caller goes on; what the last call was is forgotten
LandContinue ==
    /\ pc = "returned"
    /\ pc' = "idle"
    /\ call' = None
    /\ frame' = None
    /\ ret' = None
    /\ UNCHANGED this
    /\ UNCHANGED <<ctx, twin>>

LandNext ==
    \/ LandNewPlot
    \/ LandSetTile
    \/ LandWritePath
    \/ LandContinue

SpecLand == LandInit /\ [][LandNext]_vars

\* The land before the call that has just returned
LandBefore == frame[1]

\* A call of `op` has just returned
Returned(op) == pc = "returned" /\ call[1].op = op

\* C3: every tile holds a plot id that an insertion into the arena returned, so
\* it resolves: the ids returned are 1..Len(plots), and the arena only grows.
C3_ArenaIntegrity ==
    /\ \A pos \in DOMAIN this.land.tiles :
          this.land.tiles[pos].plot \in 1..Len(this.land.plots)
    /\ pc = "returned" =>
          /\ Len(LandBefore.plots) <= Len(this.land.plots)
          /\ SubSeq(this.land.plots, 1, Len(LandBefore.plots)) = LandBefore.plots

\* write_path has put its placeholder where no tile was, beside a tile that set
\* gave a plot inserted after construction
C3_Witness ==
    /\ Returned("write_path")
    /\ \E pos \in DOMAIN this.land.tiles :
          pos \notin DOMAIN LandBefore.tiles /\ this.land.tiles[pos].plot = this.land.hazard
    /\ \E pos \in DOMAIN this.land.tiles : this.land.tiles[pos].plot = 2

\* C9: write_path with overwrite = false leaves every way slot that held a marker
\* before the call holding the same marker, for every coordinate sequence, way
\* kind and admission predicate.
C9_NoOverwriteKeepsMarkers ==
    (Returned("write_path") /\ ~call[1].overwrite) =>
        \A pos \in DOMAIN LandBefore.tiles : \A i \in 1..4 :
            LandBefore.tiles[pos].ways[i] # None =>
                /\ pos \in DOMAIN this.land.tiles
                /\ this.land.tiles[pos].ways[i] = LandBefore.tiles[pos].ways[i]

\* write_path without overwrite ran over a pair whose two tiles were permitted and
\* held a marker of the other kind in the slots of the step
C9_Witness ==
    /\ Returned("write_path")
    /\ ~call[1].overwrite
    /\ call[1].kind = "Path"
    /\ call[1].permit_fn = PlotKinds
    /\ call[1].tiles = << <<0, 0>>, <<1, 0>> >>
    /\ {<<0, 0>>, <<1, 0>>} \subseteq DOMAIN LandBefore.tiles
    /\ LandBefore.tiles[<<0, 0>>].ways[WayIdx(<<1, 0>>)[1] + 1] = Some("Wall")
    /\ LandBefore.tiles[<<1, 0>>].ways[WayIdx(<<-1, 0>>)[1] + 1] = Some("Wall")
    /\ this.land.tiles[<<0, 0>>].ways[WayIdx(<<1, 0>>)[1] + 1] = Some("Wall")
    /\ this.land.tiles[<<1, 0>>].ways[WayIdx(<<-1, 0>>)[1] + 1] = Some("Wall")

\* C17: Land::set(coord, plot) leaves the tile at coord with the given plot id,
\* four empty way slots and no tower, whatever tile was there before, and leaves
\* every other tile and the plot arena as they were.
C17_SetReplacesTile ==
    Returned("set") =>
        LET pos == call[1].pos
        IN  /\ DOMAIN this.land.tiles = DOMAIN LandBefore.tiles \cup {pos}
            /\ this.land.tiles[pos] =
                  [plot |-> call[1].plot, ways |-> <<None, None, None, None>>, tower |-> None]
            /\ \A other \in DOMAIN LandBefore.tiles :
                  other # pos => this.land.tiles[other] = LandBefore.tiles[other]
            /\ this.land.plots = LandBefore.plots
            /\ this.land.hazard = LandBefore.hazard

\* set replaced a tile that held a way marker, beside another tile that holds one
C17_Witness ==
    /\ Returned("set")
    /\ call[1].pos \in DOMAIN LandBefore.tiles
    /\ \E i \in 1..4 : LandBefore.tiles[call[1].pos].ways[i] # None
    /\ LandBefore.tiles[call[1].pos].plot # call[1].plot
    /\ \E other \in DOMAIN this.land.tiles :
          other # call[1].pos /\ \E i \in 1..4 : this.land.tiles[other].ways[i] # None

\* The delta of the one pair of a sequence of two coordinates
PairDelta == VSub(call[1].tiles[2], call[1].tiles[1])

\* A delta is cardinal if it is one of the four unit steps
IsCardinalDelta(dir) == \E i \in 1..4 : CARDINALS[i] = dir

\* C19 as claimed: write_path skips a pair whose delta is zero or has both x and
\* y non-zero: no tile is created and no way marker is written.
C19_NonCardinalPairSkipped ==
    (Returned("write_path") /\ Len(call[1].tiles) = 2 /\ ~IsCardinalDelta(PairDelta)) =>
        this.land = LandBefore

\* The way slots in the order of the directions -x, +y, +x, -y
WaySlotOrder == << <<-1, 0>>, <<0, 1>>, <<1, 0>>, <<0, -1>> >>

\* The slot (counted from 1) of the cardinal direction dir in the order `order`
SlotIn(order, dir) == CHOOSE i \in 1..4 : order[i] = dir

\* What write_path leaves at pos when it writes slot `slot` there: the tile before
\* (the placeholder if `made` and there was none) with the marker in the slot, if
\* the plot is admitted and the slot may be written
SlotWritten(pos, slot, made) ==
    LET before == IF pos \in DOMAIN LandBefore.tiles THEN LandBefore.tiles[pos]
                  ELSE Tile(LandBefore.hazard)
        admitted == LandBefore.plots[before.plot].kind \in call[1].permit_fn
        free == call[1].overwrite \/ before.ways[slot] = None
    IN  IF pos \notin DOMAIN LandBefore.tiles /\ ~made
        THEN pos \notin DOMAIN this.land.tiles
        ELSE /\ pos \in DOMAIN this.land.tiles
             /\ this.land.tiles[pos] =
                   IF admitted /\ free
                   THEN [before EXCEPT !.ways[slot] = Some(call[1].kind)]
                   ELSE before

\* C20 as claimed: for a step from a to b in the cardinal direction d, write_path
\* writes on a the slot of d in the order of CARDINALS (+y, +x, -y, -x), and on b
\* the slot of the opposite direction.
C20_SlotsInCardinalsOrder ==
    (Returned("write_path") /\ Len(call[1].tiles) = 2 /\ IsCardinalDelta(PairDelta)) =>
        /\ SlotWritten(call[1].tiles[1], SlotIn(CARDINALS, PairDelta), TRUE)
        /\ SlotWritten(call[1].tiles[2], SlotIn(CARDINALS, VSub(<<0, 0>>, PairDelta)), FALSE)

\* C20 amended: for a step from a to b in the cardinal direction d, write_path
\* writes on a the slot of d in the order (-x, +y, +x, -y), and on b the slot of
\* the opposite direction.
C20_SlotsInWriteOrder ==
    (Returned("write_path") /\ Len(call[1].tiles) = 2 /\ IsCardinalDelta(PairDelta)) =>
        /\ SlotWritten(call[1].tiles[1], SlotIn(WaySlotOrder, PairDelta), TRUE)
        /\ SlotWritten(call[1].tiles[2], SlotIn(WaySlotOrder, VSub(<<0, 0>>, PairDelta)), FALSE)

\* write_path wrote a step in the direction +x between two tiles: the marker is
\* in the third slot of the first tile and in the first slot of the second
C20_Witness ==
    /\ Returned("write_path")
    /\ call[1].tiles = << <<0, 0>>, <<1, 0>> >>
    /\ <<1, 0>> \in DOMAIN LandBefore.tiles
    /\ <<0, 0>> \notin DOMAIN LandBefore.tiles
    /\ call[1].permit_fn = PlotKinds
    /\ this.land.tiles[<<0, 0>>].ways = <<None, None, Some(call[1].kind), None>>
    /\ this.land.tiles[<<1, 0>>].ways[1] = Some(call[1].kind)

\* write_path has returned from a call over cardinal steps with an admission
\* predicate that accepts every plot and with overwrite = true
FullAdmissionPath ==
    /\ Returned("write_path")
    /\ call[1].permit_fn = PlotKinds
    /\ call[1].overwrite
    /\ \A i \in 1..(Len(call[1].tiles) - 1) :
          IsCardinalDelta(VSub(call[1].tiles[i + 1], call[1].tiles[i]))

\* The tile at pos holds the marker of the call in its slot of the direction dir
HasMarker(pos, dir) ==
    /\ pos \in DOMAIN this.land.tiles
    /\ this.land.tiles[pos].ways[SlotIn(WaySlotOrder, dir)] = Some(call[1].kind)

----------------------------------------------------------------------------
(* SpecPath: find_path run one iteration of the search at a time.          *)

\* The destinations drawn lie within this Chebyshev distance of the origin, but
\* for one that lies as many steps away as the search has iterations
MaxPathDist == 6

PathDests ==
    {<<x, y>> : x \in -MaxPathDist..MaxPathDist, y \in -MaxPathDist..MaxPathDist}
        \cup {<<FindPathMaxIters, 0>>}

WallTile(plot) == [Tile(plot) EXCEPT !.ways[1] = Some("Wall")]

\* A land with a Hazard, a Dirt, a Water and a Grass plot, and two walled tiles
PathLand ==
    [tiles |-> (<<1, 0>> :> Tile(1)) @@ (<<0, 1>> :> Tile(2)) @@ (<<1, 1>> :> Tile(2))
                 @@ (<<-1, 0>> :> Tile(3)) @@ (<<0, -1>> :> WallTile(4))
                 @@ (<<0, -2>> :> WallTile(4)) @@ (<<0, 0>> :> Tile(4))
                 @@ (<<1, -1>> :> Tile(4)),
     plots |-> <<PlotHazard, PlotDirt, [kind |-> "Water"], [kind |-> "Grass"]>>,
     hazard |-> 1]

\* The land and the cost function of a call: the unobstructed grid with
\* |_, _| 1.0, and PathLand with the cost function of place_paths
PathInputs == {<<LandNew, "uniform">>, <<PathLand, "place_paths">>}

PathInit ==
    /\ ctx = None
    /\ twin = None
    /\ \E in \in PathInputs, dest \in PathDests :
          /\ this = SettlementOf(in[1])
          /\ call = [op |-> "find_path", origin |-> <<0, 0>>, dest |-> dest,
                     path_cost_fn |-> in[2]]
          /\ frame = AstarNew(<<0, 0>>, dest)
    /\ pc = "poll"
    /\ ret = None

\* An iteration that takes a node which is not the destination
PathStep ==
    /\ pc = "poll"
    /\ AstarRuns(frame)
    /\ ~FindPathSatisfied(AstarTop(frame), call.dest)
    /\ frame' = AstarIter(frame, this.land, call.path_cost_fn, call.dest)
    /\ UNCHANGED <<this, pc, call, ret>>
    /\ UNCHANGED <<ctx, twin>>

\* The node taken is the destination: PathResult::Path, which into_path makes Some
PathFound ==
    /\ pc = "poll"
    /\ AstarRuns(frame)
    /\ FindPathSatisfied(AstarTop(frame), call.dest)
    /\ ret' = Some(AstarPathTo(frame.came_from, AstarTop(frame)))
    /\ pc' = "path_done"
    /\ UNCHANGED <<this, call, frame>>
    /\ UNCHANGED <<ctx, twin>>

\* The budget is used up (or nothing is left to take): into_path gives None
PathExhausted ==
    /\ pc = "poll"
    /\ ~AstarRuns(frame)
    /\ ret' = None
    /\ pc' = "path_done"
    /\ UNCHANGED <<this, call, frame>>
    /\ UNCHANGED <<ctx, twin>>

PathNext == PathStep \/ PathFound \/ PathExhausted

SpecPath == PathInit /\ [][PathNext]_vars

PathDone == pc = "path_done"

Manhattan(a, b) == Abs(a[1] - b[1]) + Abs(a[2] - b[2])

\* find_path ran with the uniform cost |_, _| 1.0 on the grid without tiles
PathUniform == PathDone /\ call.path_cost_fn = "uniform" /\ DOMAIN this.land.tiles = {}

\* C7 as claimed: for every pair a, b on an unobstructed grid, find_path with a
\* uniform cost returns a path of as many moves as the Manhattan distance of a and b.
C7_PathIsManhattan ==
    PathUniform =>
        /\ ret # None
        /\ Len(ret[1]) - 1 = Manhattan(call.origin, call.dest)

\* C7 amended: find_path with a uniform cost on an unobstructed grid returns None
\* or a path of as many moves as the Manhattan distance of a and b.
C7_PathIsManhattanIfFound ==
    (PathUniform /\ ret # None) => Len(ret[1]) - 1 = Manhattan(call.origin, call.dest)

\* a path of 9 moves was found to a destination off the axes
C7_Witness ==
    /\ PathUniform
    /\ call.dest = <<-4, 5>>
    /\ ret # None
    /\ Len(ret[1]) = 10

IsCardinal(d) == \E i \in 1..4 : d = CARDINALS[i]

\* C8: find_path stops after at most 250 iterations of the search; it returns None
\* when the 250 iterations end without the destination taken, and otherwise a
\* sequence from origin to dest in which consecutive coordinates are one cardinal
\* step apart.
C8_BudgetAndPathShape ==
    PathDone =>
        /\ frame.iter <= 250
        /\ ret = None => frame.iter = 250 /\ FindPathMaxIters = 250
        /\ ret # None =>
              /\ frame.iter < 250
              /\ ret[1][1] = call.origin
              /\ ret[1][Len(ret[1])] = call.dest
              /\ \A i \in 1..(Len(ret[1]) - 1) : IsCardinal(VSub(ret[1][i + 1], ret[1][i]))

\* the search over PathLand gave up after 250 iterations
C8_Witness ==
    /\ PathDone
    /\ call.path_cost_fn = "place_paths"
    /\ ret = None
    /\ frame.iter = 250

----------------------------------------------------------------------------
(* Spec: Settlement::generate, stage by stage.  A second run, twin, is     *)
(* given the origin, the world and the random source of the first, and    *)
(* its hash sets iterate in the other order.                               *)

\* The seeds of the random source are 0..MaxSeed
MaxSeed == 1

Origins == {<<0, 0>>, <<-40, 24>>}

Sims == {None, Some("reject_all"), Some("accept_all"), Some("river_west")}

HashOrders == {"asc", "desc"}

\* The run of this
Run == [this |-> this, rng |-> ctx.rng, order |-> ctx.order]

\* let mut ctx = GenCtx { sim, rng }; let mut this = Self { .. }
Init ==
    \E wpos \in Origins, sim \in Sims, seed \in 0..MaxSeed, order \in HashOrders :
        LET rng == [seed |-> seed, n |-> 0]
            twin_order == CHOOSE other \in HashOrders : other # order
        IN  /\ this = SettlementNew(wpos, rng)
            /\ ctx = [sim |-> sim, rng |-> Drawn(rng, 4), order |-> order]
            /\ twin = [this |-> SettlementNew(wpos, rng), rng |-> Drawn(rng, 4),
                       order |-> twin_order]
            /\ pc = "designate_from_world"
            /\ call = None
            /\ frame = 0
            /\ ret = None

\* A step of a stage took the two runs to run_after and twin_after
Advance(run_after, twin_after) ==
    /\ this' = run_after.this
    /\ ctx' = [ctx EXCEPT !.rng = run_after.rng]
    /\ twin' = twin_after

\* designate_from_world: one cell of the spiral
Designate ==
    /\ pc = "designate_from_world"
    /\ ctx.sim # None
    /\ DesignateTakes(Spiral2d(frame))
    /\ Advance(DesignateTile(Run, ctx.sim[1], Spiral2d(frame)),
               DesignateTile(twin, ctx.sim[1], Spiral2d(frame)))
    /\ frame' = frame + 1
    /\ UNCHANGED <<pc, call, ret>>

\* designate_from_world is over, or is not called for want of a world
DesignateReturn ==
    /\ pc = "designate_from_world"
    /\ ctx.sim = None \/ ~DesignateTakes(Spiral2d(frame))
    /\ pc' = "place_farms"
    /\ frame' = 0
    /\ UNCHANGED <<this, ctx, twin, call, ret>>

\* place_farms: one farm and its fields
PlaceFarm ==
    /\ pc = "place_farms"
    /\ frame < FARM_COUNT
    /\ Advance(PlaceFarmIter(Run), PlaceFarmIter(twin))
    /\ frame' = frame + 1
    /\ UNCHANGED <<pc, call, ret>>

PlaceFarmsReturn ==
    /\ pc = "place_farms"
    /\ frame = FARM_COUNT
    /\ pc' = "place_town"
    /\ frame' = 0
    /\ UNCHANGED <<this, ctx, twin, call, ret>>

\* place_town hands over to place_farms once more
PlaceTownThenFarms ==
    /\ pc = "place_town"
    /\ Advance(place_town(Run), place_town(twin))
    /\ pc' = "place_farms"
    /\ frame' = FARM_COUNT - 1
    /\ UNCHANGED <<call, ret>>

PlaceTown ==
    /\ pc = "place_town"
    /\ Advance(place_town(Run), place_town(twin))
    /\ pc' = "place_buildings"
    /\ frame' = 0
    /\ UNCHANGED <<call, ret>>

\* place_buildings: the slots of one cell of the spiral about the town center
PlaceBuildings ==
    /\ pc = "place_buildings"
    /\ this.town # None
    /\ frame < BuildingTiles
    /\ Advance(PlaceBuildingsTile(Run, ctx.sim, frame),
               PlaceBuildingsTile(twin, ctx.sim, frame))
    /\ frame' = frame + 1
    /\ UNCHANGED <<pc, call, ret>>

\* place_buildings returns, at once if there is no town
PlaceBuildingsReturn ==
    /\ pc = "place_buildings"
    /\ this.town = None \/ frame = BuildingTiles
    /\ pc' = "generated"
    /\ ret' = Some(this)
    /\ UNCHANGED <<this, ctx, twin, call, frame>>

Next ==
    \/ Designate
    \/ DesignateReturn
    \/ PlaceFarm
    \/ PlaceFarmsReturn
    \/ PlaceTown
    \/ PlaceBuildings
    \/ PlaceBuildingsReturn

Spec == Init /\ [][Next]_vars

Generated == pc = "generated"

\* The structures of the list whose position lies in the cell `tile`
StructuresIn(tile) ==
    {i \in 1..Len(this.structures) :
        <<this.structures[i].pos[1] \div AREA_SIZE,
          this.structures[i].pos[2] \div AREA_SIZE>> = tile}

\* C1: in every state of place_buildings and in the Settlement that generate
\* returns, no two distinct structures of the list have 2d bounds that collide.
C1_NoTwoStructuresCollide ==
    \A i, j \in 1..Len(this.structures) :
        i # j => ~collides_with_aabr(bounds_2d(this.structures[i]),
                                     bounds_2d(this.structures[j]))

\* place_buildings has just left a town cell of a run without a world, where no
\* path bars a candidate, with fewer structures than the two slots it has at
\* least: the 25 candidates of a slot all collided with a structure of the list
C1_Witness ==
    /\ pc = "place_buildings"
    /\ frame > 0
    /\ ctx.sim = None
    /\ Len(this.structures) >= 2
    /\ LET tile == VAdd(this.town[1].base_tile, Spiral2d(frame - 1))
       IN  /\ KindOf(plot_at(this.land, tile)) = "Town"
           /\ Cardinality(StructuresIn(tile)) < 2

\* C2: two runs of generate given the same origin, the same random source and
\* the same world end with the same tile map, the same plot arena and the same
\* structure list in the same order.
C2_Deterministic ==
    Generated =>
        /\ twin.this.land.tiles = this.land.tiles
        /\ twin.this.land.plots = this.land.plots
        /\ twin.this.structures = this.structures

\* both runs are over, their hash sets iterated in different orders over fields
\* of more than one tile, and structures were placed
C2_Witness ==
    /\ Generated
    /\ twin.order # ctx.order
    /\ this.structures # <<>>
    /\ \E a, b \in DOMAIN this.land.tiles :
          /\ a # b
          /\ this.land.tiles[a].plot = this.land.tiles[b].plot
          /\ KindOf(plot_at(this.land, a)) = "Field"

\* C10: with a world that hosts a settlement nowhere, after designate_from_world
\* every tile coordinate at a Chebyshev distance below radius() / AREA_SIZE from
\* the origin tile has a tile whose plot is Hazard.
C10_RejectAllIsAllHazard ==
    (ctx.sim = Some("reject_all") /\ pc # "designate_from_world") =>
        \A tile \in (-TileRadius..TileRadius) \X (-TileRadius..TileRadius) :
            ReduceMaxAbs(tile) < TileRadius =>
                KindOf(plot_at(this.land, tile)) = "Hazard"

\* designate_from_world has just returned in a world that hosts nowhere, and the
\* cells it designated are the 23 * 23 cells within the radius
C10_Witness ==
    /\ ctx.sim = Some("reject_all")
    /\ pc = "place_farms"
    /\ frame = 0
    /\ TileRadius = 12
    /\ Cardinality(DOMAIN this.land.tiles) = 529

\* C11 as claimed: with a world that hosts a settlement nowhere, the farm
\* registry is empty, no town is set and the structure list is empty when
\* generate returns.
C11_RejectAllPlacesNothing ==
    (ctx.sim = Some("reject_all") /\ Generated) =>
        /\ this.farms = <<>>
        /\ this.town = None
        /\ this.structures = <<>>

\* The stages of generate in the order of its body
Stages == <<"designate_from_world", "place_farms", "place_town", "place_buildings", "generated">>

\* The place of a stage in that order
StageRank(stage) == CHOOSE i \in 1..Len(Stages) : Stages[i] = stage

\* C12: the stages of generate run at most once each and in the order designate,
\* place_farms, place_town, place_buildings: a step stays in its stage or moves to
\* the next one, never back and never past one, designate_from_world changes the
\* settlement only when a world is supplied, and a stage is left only when its
\* loop is over.
C12_StagesInOrder ==
    [][/\ StageRank(pc') \in {StageRank(pc), StageRank(pc) + 1}
       /\ (pc = "designate_from_world" /\ this' # this) => ctx.sim # None
       /\ (pc = "designate_from_world" /\ pc' # pc) =>
              ctx.sim = None \/ ~DesignateTakes(Spiral2d(frame))
       /\ (pc = "place_farms" /\ pc' # pc) => frame = FARM_COUNT
       /\ (pc = "place_buildings" /\ pc' # pc) =>
              this.town = None \/ frame = BuildingTiles]_vars

\* generate returned after every stage did its work: a world was supplied, cells
\* were designated, farms, a town and structures were placed
C12_Witness ==
    /\ Generated
    /\ ctx.sim = Some("river_west")
    /\ \E pos \in DOMAIN this.land.tiles : this.land.tiles[pos].plot = this.land.hazard
    /\ Len(this.farms) = FARM_COUNT
    /\ this.town # None
    /\ this.structures # <<>>

----------------------------------------------------------------------------
(* SpecFind: Land::find_tile_near, one position of the spiral per step.    *)
(* The spiral of the code has no end; the search of SpecFind follows its   *)
(* first MaxFindIndex positions and, past them, goes round again.          *)

MaxFindIndex == 25

FindCoords == {<<0, 0>>, <<1, 0>>, <<0, -1>>, <<1, -1>>}

FindOrigins == {<<0, 0>>, <<1, -1>>}

\* The predicates of the callers: plot.is_none() of place_farms and place_field,
\* Field or Dirt of place_town, Field of place_paths, and two more kinds
FindMatchFns == {{"None"}, {"Field", "Dirt"}, {"Field"}, {"Water"}, {"Hazard"}}

\* A Land whose arena holds Hazard, a Field and Dirt, with the tiles of assign
FindLand(assign) ==
    [tiles |-> [pos \in DOMAIN assign |-> Tile(assign[pos])],
     plots |-> <<PlotHazard, PlotField(1, 0, "Corn"), PlotDirt>>,
     hazard |-> 1]

FindInit ==
    \E present \in SUBSET FindCoords :
      \E assign \in [present -> 1..3], origin \in FindOrigins, match_fn \in FindMatchFns :
        /\ this = SettlementOf(FindLand(assign))
        /\ call = Some([op |-> "find_tile_near", origin |-> origin, match_fn |-> match_fn])
        /\ pc = "find_tile_near"
        /\ frame = 0
        /\ ret = None
        /\ ctx = None
        /\ twin = None

\* The position shifted by nothing: the origin is left out
FindVisitsNoOrigin(origin, n) == Spiral2d(n)

\* Spiral2d::new().map(|pos| origin + pos): the n-th position the search visits
FindVisits(origin, n) == VAdd(origin, Spiral2d(n))

\* .find(|pos| match_fn(self.plot_at(*pos))): the predicate on a position
FindMatches(land, match_fn, pos) == MatchFn(match_fn, plot_at(land, pos))

\* The position does not match: the search goes on to the next one
FindStep ==
    /\ pc = "find_tile_near"
    /\ ~FindMatches(this.land, call[1].match_fn, FindVisits(call[1].origin, frame))
    /\ frame' = (frame + 1) % MaxFindIndex
    /\ UNCHANGED <<this, pc, call, ret>>
    /\ UNCHANGED <<ctx, twin>>

\* The position matches: find returns it
FindReturn ==
    /\ pc = "find_tile_near"
    /\ FindMatches(this.land, call[1].match_fn, FindVisits(call[1].origin, frame))
    /\ ret' = Some(FindVisits(call[1].origin, frame))
    /\ pc' = "find_done"
    /\ UNCHANGED <<this, call, frame>>
    /\ UNCHANGED <<ctx, twin>>

FindNext == FindStep \/ FindReturn

SpecFind == FindInit /\ [][FindNext]_vars

\* The search is never kept from its next step
SpecFindFair == SpecFind /\ WF_vars(FindNext)

FindDone == pc = "find_done"

\* No position satisfies the predicate: none with a tile, and none without
FindUnsatisfiable ==
    /\ "None" \notin call[1].match_fn
    /\ \A pos \in DOMAIN this.land.tiles :
          ~MatchFn(call[1].match_fn, plot_at(this.land, pos))

Chebyshev(a, b) == ReduceMaxAbs(VSub(a, b))

\* The positions about the origin up to the last layer SpecFind follows
FindBox(origin) == {VAdd(origin, <<x, y>>) : x \in -3..3, y \in -3..3}

\* C14: find_tile_near visits the spiral from origin itself on and returns the
\* first position whose plot satisfies the predicate: the result satisfies it, no
\* earlier position of the spiral does, and no satisfying position is nearer to
\* origin in Chebyshev distance; it is the position find_tile_near of generate finds.
C14_FirstInSpiralOrder ==
    FindDone =>
        LET origin == call[1].origin
            match_fn == call[1].match_fn
        IN  /\ ret # None
            /\ MatchFn(match_fn, plot_at(this.land, ret[1]))
            /\ ret[1] = VAdd(origin, Spiral2d(frame))
            /\ \A m \in 0..(frame - 1) :
                  ~MatchFn(match_fn, plot_at(this.land, VAdd(origin, Spiral2d(m))))
            /\ \A pos \in FindBox(origin) :
                  Chebyshev(pos, origin) < Chebyshev(ret[1], origin) =>
                      ~MatchFn(match_fn, plot_at(this.land, pos))
            /\ frame = 0 => ret[1] = origin
            /\ ret = find_tile_near(this.land, origin, match_fn)

\* the search from (1, -1) passed positions with tiles and positions without and
\* returned a position that is not the origin
C14_Witness ==
    /\ FindDone
    /\ call[1].origin = <<1, -1>>
    /\ frame > 2
    /\ ret[1] \in DOMAIN this.land.tiles
    /\ \E m \in 0..(frame - 1) : VAdd(call[1].origin, Spiral2d(m)) \notin DOMAIN this.land.tiles

\* C15 as claimed: when no coordinate satisfies the predicate, the search ends
\* and hands its caller None.
C15_NoMatchEndsWithNone ==
    (pc = "find_tile_near" /\ FindUnsatisfiable) ~> (FindDone /\ ret = None)

----------------------------------------------------------------------------
(* Sampling: Land::get_at_block and the queries of a Settlement            *)

\* fn to_tile
to_tile(e) == e \div AREA_SIZE

\* RandomField::get: the value of the field of `seed` at a position
RandomGet(seed, pos) ==
    LET h == ((pos[1] % 4093) * 1571 + (pos[2] % 4093) * 2909 + (pos[3] % 4093) * 353
              + (seed % 4093) * 977 + 131) % 4093
        g == (h * h + ((seed % 64) + 3) * h + 1009) % 4093
    IN  g * 7 + (h % 7)

\* RandomField::chance(pos, num / den): the low ten bits of the value, as a
\* fraction of 1024, are below the chance
RandomChance(seed, pos, num, den) == (RandomGet(seed, pos) % 1024) * den < 1024 * num

\* StructureGen2d::new(seed, AREA_SIZE, AREA_SIZE * 2 / 5): the spread of the centers
SamplerSpread == (AREA_SIZE * 2) \div 5

\* StructureGen2d: the center of the cell `index`, in the middle of the cell and
\* moved by less than the spread on either axis
SamplerCenter(seed, index) ==
    LET at == <<index[1], index[2], 0>>
    IN  <<index[1] * AREA_SIZE + AREA_SIZE \div 2
              + (RandomGet(seed, at) % (SamplerSpread * 2)) - SamplerSpread,
          index[2] * AREA_SIZE + AREA_SIZE \div 2
              + (RandomGet(seed + 1, at) % (SamplerSpread * 2)) - SamplerSpread>>

\* StructureGen2d::get: the centers of the cell of pos and of the eight cells
\* about it, column by column: entry i * 3 + j is the cell at (i - 1, j - 1)
SamplerGet(seed, pos) ==
    [k \in 1..9 |->
        SamplerCenter(seed, <<to_tile(pos[1]) + ((k - 1) \div 3) - 1,
                              to_tile(pos[2]) + ((k - 1) % 3) - 1>>)]

\* Vec2::distance_squared
DistanceSquared(a, b) ==
    (a[1] - b[1]) * (a[1] - b[1]) + (a[2] - b[2]) * (a[2] - b[2])

\* iter().min_by_key(|center| center.distance_squared(pos)) over the centers at
\* the indices `among`: the first of the least key
MinByKey(neighbors, among, pos) ==
    neighbors[CHOOSE k \in among :
        \A other \in among :
            \/ DistanceSquared(neighbors[k], pos) < DistanceSquared(neighbors[other], pos)
            \/ DistanceSquared(neighbors[k], pos) = DistanceSquared(neighbors[other], pos)
               /\ k <= other]

\* WayKind::width
WayWidth(kind) == IF kind = "Path" THEN 4 ELSE 3

\* Tower::radius
TowerRadius == 6

\* LineSegment2::projected_point and its distance to pos, squared, as the
\* fraction <<numerator, denominator>>
ProjectedDistSq(start, end, pos) ==
    LET d == VSub(end, start)
        w == VSub(pos, start)
        dd == d[1] * d[1] + d[2] * d[2]
        wd == w[1] * d[1] + w[2] * d[2]
    IN  IF dd = 0 \/ wd <= 0 THEN <<DistanceSquared(pos, start), 1>>
        ELSE IF wd >= dd THEN <<DistanceSquared(pos, end), 1>>
        ELSE <<(w[1] * w[1] + w[2] * w[2]) * dd - wd * wd, dd>>

\* a < b for two fractions of positive denominator
FracLess(a, b) == a[1] * b[2] < b[1] * a[2]

\* The neighbor that the way slot i (counted from 0) leads to: let map = [1, 5, 7, 3]
WayNeighbor == <<1, 5, 7, 3>>

\* The body of the loop of get_at_block over the four way slots, from slot i on;
\* way is the sample of the way so far
RECURSIVE SampleWays(_, _, _, _, _)
SampleWays(center_tile, neighbors, pos, way, i) ==
    IF i = 4 THEN way
    ELSE LET slot == IF center_tile = None THEN None ELSE center_tile[1].ways[i + 1]
             dist == ProjectedDistSq(neighbors[5], neighbors[WayNeighbor[i + 1] + 1], pos)
             next == IF slot # None /\ FracLess(dist, <<WayWidth(slot[1]) * WayWidth(slot[1]), 1>>)
                     THEN IF way # None /\ FracLess(way[1].dist, dist) THEN way
                          ELSE Some([kind |-> slot[1], dist |-> dist, slot |-> i])
                     ELSE way
         IN  SampleWays(center_tile, neighbors, pos, next, i + 1)

\* The plot of the cell of pos itself, not of the closest center
GetAtBlockOwnCell(land, pos) ==
    LET neighbors == SamplerGet(land.sampler_warp, pos)
        closest == MinByKey(neighbors, 1..9, pos)
        second_closest == MinByKey(neighbors, {k \in 1..9 : neighbors[k] # closest}, pos)
    IN  [plot |-> plot_at(land, <<to_tile(pos[1]), to_tile(pos[2])>>),
         way |-> None, tower |-> None,
         edge_dist |-> <<DistanceSquared(second_closest, pos), DistanceSquared(closest, pos)>>,
         second_closest |-> <<to_tile(second_closest[1]), to_tile(second_closest[2])>>]

\* Land::get_at_block.  edge_dist is kept as the squares of the two distances
\* whose difference it is.
get_at_block(land, pos) ==
    LET neighbors == SamplerGet(land.sampler_warp, pos)
        closest == MinByKey(neighbors, 1..9, pos)
        second_closest == MinByKey(neighbors, {k \in 1..9 : neighbors[k] # closest}, pos)
        center_tile == tile_at(land, <<to_tile(neighbors[5][1]), to_tile(neighbors[5][2])>>)
        tower == IF center_tile = None THEN None ELSE center_tile[1].tower
    IN  [plot |-> plot_at(land, <<to_tile(closest[1]), to_tile(closest[2])>>),
         way |-> SampleWays(center_tile, neighbors, pos, None, 0),
         tower |-> IF tower # None
                      /\ DistanceSquared(neighbors[5], pos) < TowerRadius * TowerRadius
                   THEN Some(<<tower[1], neighbors[5]>>) ELSE None,
         edge_dist |-> <<DistanceSquared(second_closest, pos), DistanceSquared(closest, pos)>>,
         second_closest |-> <<to_tile(second_closest[1]), to_tile(second_closest[2])>>]

\* matches!(sample.plot, Some(Plot::Town { .. })) with any plot taken for a town
IsAnyPlot(plot) == plot # None

\* matches!(sample.plot, Some(Plot::Town { .. }))
IsTownPlot(plot) == plot # None /\ plot[1].kind = "Town"

\* The offsets of the columns that get_column knows, in the order of the loops:
\* y outside, x inside.  The loops `continue` at every other offset.
ColumnOrder(columns) ==
    LET offsets == {offs \in DOMAIN columns :
                       offs[1] \in 0..(RECT_SIZE - 1) /\ offs[2] \in 0..(RECT_SIZE - 1)}
        Rank(offs) == Cardinality({o \in offsets :
                          o[2] < offs[2] \/ (o[2] = offs[2] /\ o[1] < offs[1])})
    IN  [i \in 1..Cardinality(offsets) |-> CHOOSE offs \in offsets : Rank(offs) = i - 1]

\* The entity of apply_supplement: EntityInfo::at(entity_wpos) with its body,
\* agency, alignment and tool.  rngs.dynamic is dynamic_rng and rngs.thread the
\* thread-local source of humanoid::Body::random().
SupplementEntity(rngs, entity_wpos, is_dummy) ==
    LET draw == GenRange(rngs.dynamic, 0, 5)
        rng1 == Drawn(rngs.dynamic, 1)
        body ==
            IF is_dummy THEN [kind |-> "TrainingDummy"]
            ELSE IF draw = 0
            THEN [kind |-> "QuadrupedSmall",
                  species |-> <<"Pig", "Sheep", "Cat">>[GenRange(rng1, 0, 3) + 1],
                  variant |-> Gen(Drawn(rng1, 1)) % 2]
            ELSE IF draw = 1
            THEN [kind |-> "BirdMedium",
                  species |-> <<"Duck", "Chicken", "Goose", "Peacock">>[GenRange(rng1, 0, 4) + 1],
                  variant |-> Gen(Drawn(rng1, 1)) % 2]
            ELSE [kind |-> "Humanoid", variant |-> Gen(rngs.thread) % 2]
        is_human == ~is_dummy /\ draw >= 2
        rng2 == IF is_dummy \/ is_human THEN rng1 ELSE Drawn(rng1, 2)
        armed == is_human /\ Gen(rng2) % 2 = 1
        rng3 == IF is_human THEN Drawn(rng2, 1) ELSE rng2
    IN  [entity |-> [pos |-> entity_wpos, body |-> body, agency |-> ~is_dummy,
                     alignment |-> IF is_dummy THEN "Passive"
                                   ELSE IF is_human THEN "Npc" ELSE "Tame",
                     main_tool |-> IF armed THEN Some(GenRange(rng3, 0, 7)) ELSE None,
                     name |-> IF is_dummy THEN "Training Dummy" ELSE "automatic",
                     is_dummy |-> is_dummy],
         rngs |-> [dynamic |-> IF armed THEN Drawn(rng3, 1) ELSE rng3,
                   thread |-> IF is_human THEN Drawn(rngs.thread, 1) ELSE rngs.thread]]

\* The body of the loops of apply_supplement at the offset offs, whose column
\* is col; st holds the random sources and the entities added so far
ApplySupplementColumn(settlement, st, wpos2d, offs, col) ==
    LET wpos == VAdd(wpos2d, offs)
        rpos == VSub(wpos, settlement.origin)
        sample == get_at_block(settlement.land, rpos)
        entity_wpos == <<wpos[1], wpos[2], col.alt + 3>>
    IN  IF IsTownPlot(sample.plot)
           /\ RandomChance(settlement.seed, <<wpos[1], wpos[2], 0>>, 1, 50 * 40)
        THEN LET is_dummy == RandomChance(settlement.seed + 1, <<wpos[1], wpos[2], 0>>, 1, 15)
                 made == SupplementEntity(st.rngs, entity_wpos, is_dummy)
             IN  [rngs |-> made.rngs, entities |-> Append(st.entities, made.entity)]
        ELSE st

RECURSIVE ApplySupplementFrom(_, _, _, _, _, _)
ApplySupplementFrom(settlement, st, wpos2d, columns, order, i) ==
    IF i > Len(order) THEN st
    ELSE ApplySupplementFrom(settlement,
             ApplySupplementColumn(settlement, st, wpos2d, order[i], columns[order[i]]),
             wpos2d, columns, order, i + 1)

\* Settlement::apply_supplement: the entities added to the supplement, in order
apply_supplement(settlement, rngs, wpos2d, columns) ==
    ApplySupplementFrom(settlement, [rngs |-> rngs, entities |-> <<>>], wpos2d, columns,
                        ColumnOrder(columns), 1).entities

\* (pos * furrow_dir).sum().rem_euclid(period) < width, for the furrows of a field
InFurrow(pos, seed, period, width) ==
    LET furrow_dir == << <<1, 0>>, <<0, 1>>, <<1, 1>>, <<-1, 1>> >>[(seed % 4) + 1]
    IN  (pos[1] * furrow_dir[1] + pos[2] * furrow_dir[2]) % period < width

\* Settlement::get_color
get_color(settlement, pos) ==
    LET sample == get_at_block(settlement.land, pos)
        kind == IF sample.plot = None THEN "None" ELSE sample.plot[1].kind
    IN  IF kind \in {"Dirt", "Grass", "Water"} THEN Some([base |-> kind])
        ELSE IF kind = "Town"
        THEN Some([base |-> "Town",
                   noise |-> [i \in 1..3 |->
                       RandomGet(settlement.noise, <<pos[1], pos[2], (i - 1) * 5>>) % 16]])
        ELSE IF kind = "Field"
        THEN LET seed == sample.plot[1].seed
             IN  Some([base |-> "Field",
                       rgb |-> <<IF InFurrow(pos, seed, 6, 3) THEN 100 ELSE 32 + ((seed % 256) % 64),
                                 64 + (((seed \div 256) % 256) % 128),
                                 16 + (((seed \div 65536) % 256) % 32)>>])
        ELSE None

\* The body of the loops of apply_to at the offset offs, whose column is col:
\* what is written into the volume there (the colour of the ground by its
\* source, the wall and the tower; sprites and block heights are left out)
ApplyToColumn(settlement, wpos2d, offs, col) ==
    LET wpos == VAdd(wpos2d, offs)
        rpos == VSub(wpos, settlement.origin)
        sample == get_at_block(settlement.land, rpos)
        kind == IF sample.plot = None THEN "None" ELSE sample.plot[1].kind
        color == IF kind \in {"Dirt", "Grass", "Water"} THEN Some(kind)
                 ELSE IF kind = "Town" THEN Some("TownPath")
                 ELSE IF kind = "Field"
                 THEN IF InFurrow(wpos, sample.plot[1].seed, 5, 2)
                      THEN Some("FieldDirt") ELSE Some("FieldMound")
                 ELSE None
        is_path == col.path # None /\ col.path[1].dist < col.path[1].width
        dry == col.water_dist = None \/ col.water_dist[1] > 2
    IN  [offs |-> offs,
         ground |-> IF color # None /\ dry /\ ~is_path THEN color ELSE None,
         wall |-> sample.way # None /\ sample.way[1].kind = "Wall",
         tower |-> sample.tower # None /\ sample.tower[1][1] = "Wall"]

\* Settlement::apply_to: the columns written, in order, and the structures
\* that are near enough to the chunk to be written
apply_to(settlement, wpos2d, columns) ==
    LET order == ColumnOrder(columns)
        near == [min |-> VSub(wpos2d, settlement.origin),
                 max |-> VAdd(VSub(wpos2d, settlement.origin), <<RECT_SIZE + 1, RECT_SIZE + 1>>)]
    IN  [columns |-> [i \in 1..Len(order) |->
                         ApplyToColumn(settlement, wpos2d, order[i], columns[order[i]])],
         structures |-> {i \in 1..Len(settlement.structures) :
                            collides_with_aabr(bounds_2d(settlement.structures[i]), near)}]

----------------------------------------------------------------------------
(* SpecQuery: the queries of a generated Settlement                        *)

\* The dynamic random sources of apply_supplement have the seeds 0..MaxQueryRng
MaxQueryRng == 1

\* The cells that may hold a tile
QueryCoords == {<<0, 1>>, <<1, 1>>, <<1, 0>>}

\* The seeds of the settlements
QuerySeeds == {4, 9}

\* The seed of the sampler of the land: rng.gen() of Land::new
QueryWarp == 3

\* The plot arena: the hazard, a town plot and a field
QueryPlots == <<PlotHazard, PlotTown(Some(1)), PlotField(1, 6, "Corn")>>

\* The tile of a cell: a town tile carries a wall, a path and a tower, as
\* place_paths leaves them
QueryTile(plot) ==
    IF plot = 2
    THEN [plot |-> plot, ways |-> <<Some("Wall"), None, Some("Path"), None>>,
          tower |-> Some("Wall")]
    ELSE Tile(plot)

\* The land in which the cell pos holds the plot assign[pos], or no tile for 0
QueryLand(assign) ==
    [tiles |-> [pos \in {q \in QueryCoords : assign[q] # 0} |-> QueryTile(assign[pos])],
     plots |-> QueryPlots,
     hazard |-> 1,
     sampler_warp |-> QueryWarp]

\* A settlement as generate leaves it, with two houses
QuerySettlement(assign, seed) ==
    [seed |-> seed, origin |-> <<0, 0>>, land |-> QueryLand(assign), farms |-> <<>>,
     structures |-> <<[kind |-> "House", pos |-> <<30, 40>>,
                       bounds |-> [min |-> <<25, 35>>, max |-> <<35, 45>>]],
                      [kind |-> "House", pos |-> <<200, 200>>,
                       bounds |-> [min |-> <<195, 195>>, max |-> <<205, 205>>]]>>,
     town |-> None, noise |-> seed + 2]

\* The positions asked about, relative to the origin of the settlement
QueryPositions == {<<x, y>> : x \in {1, 11, 21, 31, 41, 51, 61}, y \in {33, 43, 53, 63}}

\* The chunks asked about, by their world position
QueryChunks == {<<32, 32>>, <<0, 32>>}

\* The offsets of the columns that get_column may know
QueryOffsets == {<<8, 0>>, <<9, 0>>, <<20, 1>>, <<11, 3>>, <<5, 5>>, <<4, 15>>, <<2, 18>>}

\* The ColumnSample of an offset: one column lies on a path, one at the water
QueryColumn(offs) ==
    [alt |-> 10 + offs[1], riverless_alt |-> 10 + offs[1],
     path |-> IF offs = <<5, 5>> THEN Some([dist |-> 1, width |-> 5]) ELSE None,
     water_dist |-> IF offs = <<20, 1>> THEN Some(1) ELSE None]

\* get_column: every offset known, or all but one
QueryColumnSets ==
    {[offs \in QueryOffsets \ missing |-> QueryColumn(offs)] : missing \in {{}, {<<9, 0>>}}}

QueryInit ==
    /\ \E assign \in [QueryCoords -> 0..3], seed \in QuerySeeds :
          this = QuerySettlement(assign, seed)
    /\ pc = "idle"
    /\ call = None
    /\ frame = None
    /\ ret = None
    /\ ctx = None
    /\ twin = None

\* Land::get_at_block
QueryGetAtBlock ==
    /\ pc = "idle"
    /\ \E pos \in QueryPositions :
          /\ call' = Some([op |-> "get_at_block", pos |-> pos])
          /\ ret' = Some(get_at_block(this.land, pos))
    /\ frame' = Some(this)
    /\ pc' = "returned"
    /\ UNCHANGED <<this, ctx, twin>>

\* A get_color that remembers the tile it sampled in the tile map
QueryGetColorCaching ==
    /\ pc = "idle"
    /\ \E pos \in QueryPositions :
          /\ call' = Some([op |-> "get_color", pos |-> pos])
          /\ ret' = Some(get_color(this, pos))
          /\ this' = [this EXCEPT !.land =
                         EnsureTile(@, <<to_tile(pos[1]), to_tile(pos[2])>>)]
    /\ frame' = Some(this)
    /\ pc' = "returned"
    /\ UNCHANGED <<ctx, twin>>

\* Settlement::get_color(&self, ..)
QueryGetColor ==
    /\ pc = "idle"
    /\ \E pos \in QueryPositions :
          /\ call' = Some([op |-> "get_color", pos |-> pos])
          /\ ret' = Some(get_color(this, pos))
    /\ frame' = Some(this)
    /\ pc' = "returned"
    /\ UNCHANGED <<this, ctx, twin>>

\* Settlement::apply_to(&self, ..): the volume written is the result
QueryApplyTo ==
    /\ pc = "idle"
    /\ \E wpos2d \in QueryChunks, columns \in QueryColumnSets :
          /\ call' = Some([op |-> "apply_to", wpos2d |-> wpos2d, columns |-> columns])
          /\ ret' = Some(apply_to(this, wpos2d, columns))
    /\ frame' = Some(this)
    /\ pc' = "returned"
    /\ UNCHANGED <<this, ctx, twin>>

\* Settlement::apply_supplement(&self, ..), called twice on the same settlement,
\* chunk and columns with two different random sources: ret is the supplement
\* of the first call and twin that of the second
QueryApplySupplement ==
    /\ pc = "idle"
    /\ \E wpos2d \in QueryChunks, columns \in QueryColumnSets :
       \E a \in 0..MaxQueryRng, b \in 0..MaxQueryRng :
          /\ a < b
          /\ call' = Some([op |-> "apply_supplement", wpos2d |-> wpos2d,
                           columns |-> columns, dynamic_rng |-> <<a, b>>])
          /\ ret' = Some(apply_supplement(this,
                             [dynamic |-> [seed |-> a, n |-> 0],
                              thread |-> [seed |-> b, n |-> 0]], wpos2d, columns))
          /\ twin' = Some(apply_supplement(this,
                              [dynamic |-> [seed |-> b, n |-> 0],
                               thread |-> [seed |-> a, n |-> 0]], wpos2d, columns))
    /\ frame' = Some(this)
    /\ pc' = "returned"
    /\ UNCHANGED <<this, ctx>>

\* The caller goes on to its next query
QueryContinue ==
    /\ pc = "returned"
    /\ pc' = "idle"
    /\ call' = None
    /\ frame' = None
    /\ ret' = None
    /\ twin' = None
    /\ UNCHANGED <<this, ctx>>

QueryNext ==
    \/ QueryGetAtBlock
    \/ QueryGetColor
    \/ QueryApplyTo
    \/ QueryApplySupplement
    \/ QueryContinue

SpecQuery == QueryInit /\ [][QueryNext]_vars

\* The centers of the sampler about pos that no other center is closer to pos than
QueryClosest(pos) ==
    LET neighbors == SamplerGet(this.land.sampler_warp, pos)
    IN  {neighbors[k] : k \in {i \in 1..9 : \A j \in 1..9 :
            DistanceSquared(neighbors[i], pos) <= DistanceSquared(neighbors[j], pos)}}

\* C16: get_at_block reports plot = None exactly when the home tile coordinate
\* of the closest center holds no tile, and otherwise the plot that the tile
\* there refers to; an absent tile is never reported as the hazard plot.
C16_PlotOfClosestCenter ==
    Returned("get_at_block") =>
        \E closest \in QueryClosest(call[1].pos) :
            LET home == <<to_tile(closest[1]), to_tile(closest[2])>>
            IN  /\ ret[1].plot = None <=> home \notin DOMAIN this.land.tiles
                /\ home \in DOMAIN this.land.tiles =>
                      ret[1].plot = Some(this.land.plots[this.land.tiles[home].plot])

\* get_at_block has reported no plot at a position whose own cell holds a tile,
\* in a land that has hazard tiles
C16_Witness ==
    /\ Returned("get_at_block")
    /\ ret[1].plot = None
    /\ <<to_tile(call[1].pos[1]), to_tile(call[1].pos[2])>> \in DOMAIN this.land.tiles
    /\ \E pos \in DOMAIN this.land.tiles : this.land.tiles[pos].plot = this.land.hazard

\* The queries that take the settlement by shared reference
SharedQueries == {"apply_to", "apply_supplement", "get_color"}

\* C13: apply_to, apply_supplement and get_color leave the settlement as it
\* was: the tile map, the plot arena, the farm registry, the structure list,
\* the town, the seed and the origin are the same before and after each call.
C13_QueriesLeaveSettlement ==
    [][(pc' = "returned" /\ call'[1].op \in SharedQueries) =>
          /\ this'.land.tiles = this.land.tiles
          /\ this'.land.plots = this.land.plots
          /\ this'.farms = this.farms
          /\ this'.structures = this.structures
          /\ this'.town = this.town
          /\ this'.seed = this.seed
          /\ this'.origin = this.origin]_vars

\* apply_to has written ground, a wall, a tower and a structure into the
\* volume of a chunk
C13_Witness ==
    /\ Returned("apply_to")
    /\ \E i \in DOMAIN ret[1].columns : ret[1].columns[i].ground # None
    /\ \E i \in DOMAIN ret[1].columns : ret[1].columns[i].wall
    /\ \E i \in DOMAIN ret[1].columns : ret[1].columns[i].tower
    /\ ret[1].structures = {1}

\* The world positions of the columns of the call at which apply_supplement is
\* to add an entity: the columns that get_column knows, whose sample is a town
\* plot, and that pass the chance keyed by the seed of the settlement
SupplementPlaces ==
    {VAdd(call[1].wpos2d, offs) : offs \in
        {o \in DOMAIN call[1].columns :
            LET wpos == VAdd(call[1].wpos2d, o)
                plot == get_at_block(this.land, VSub(wpos, this.origin)).plot
            IN  /\ plot # None
                /\ plot[1].kind = "Town"
                /\ RandomChance(this.seed, <<wpos[1], wpos[2], 0>>, 1, 2000)}}

\* The two calls of apply_supplement have added their entities at the same
\* world coordinates, those of SupplementPlaces, with the same dummies among them
SamePresence ==
    /\ Len(ret[1]) = Len(twin[1])
    /\ \A i \in DOMAIN ret[1] :
          /\ ret[1][i].pos = twin[1][i].pos
          /\ ret[1][i].is_dummy = twin[1][i].is_dummy
    /\ {<<ret[1][i].pos[1], ret[1][i].pos[2]>> : i \in DOMAIN ret[1]} = SupplementPlaces
    /\ Len(ret[1]) = Cardinality(SupplementPlaces)

\* Everything of an entity but its body (with the species) and its equipment
EntityRest(entity) ==
    [pos |-> entity.pos, is_dummy |-> entity.is_dummy, agency |-> entity.agency,
     alignment |-> entity.alignment, name |-> entity.name]

----------------------------------------------------------------------------
(* The later stages of generate *)

\* The coordinates whose tile holds the Hazard plot
HazardTiles(land) == {pos \in DOMAIN land.tiles : KindOf(plot_at(land, pos)) = "Hazard"}

\* C22: a tile coordinate that holds the Hazard plot once designate_from_world
\* is over holds it after every later step of generate, and so when generate
\* returns.
C22_HazardKept ==
    [][pc # "designate_from_world" => HazardTiles(this.land) \subseteq HazardTiles(this'.land)]_vars

\* generate has returned with a town one of whose districts covers a hazard
\* cell, and with a field beside a hazard cell
C22_Witness ==
    /\ Generated
    /\ this.town # None
    /\ \E d \in DOMAIN this.town[1].districts :
          DistrictCellsAll(this.land, this.town[1].districts[d].aabr)
              \cap HazardTiles(this.land) # {}
    /\ \E pos \in HazardTiles(this.land) : \E i \in 1..4 :
          KindOf(plot_at(this.land, VAdd(pos, CARDINALS[i]))) = "Field"

\* A step of place_buildings over one cell of the spiral
BuildingsStep == pc = "place_buildings" /\ frame' = frame + 1

\* C23: over one cell of the spiral place_buildings has 2 to 4 slots and
\* appends at most one Structure for each; a slot makes at most 25 attempts,
\* each of which draws a position and, if it comes to generating a building,
\* the building; a slot that appends nothing has made all 25, and on a cell
\* that is no town cell every slot makes exactly 25 attempts and adds nothing.
\* So the list never holds more than 4 Structures for each cell visited, 1024
\* in all.
C23_BoundedRetries ==
    [][BuildingsStep =>
          LET slots == GenRange(ctx.rng, 2, 5)
              added == Len(this'.structures) - Len(this.structures)
              draws == ctx'.rng.n - ctx.rng.n - 1
              tile == VAdd(this.town[1].base_tile, Spiral2d(frame))
          IN  /\ slots \in 2..4
              /\ added \in 0..slots
              /\ SubSeq(this'.structures, 1, Len(this.structures)) = this.structures
              /\ draws <= 4 * (added + (MaxAttempts - 1) * added + MaxAttempts * (slots - added))
              /\ draws >= 4 * added + 2 * MaxAttempts * (slots - added)
              /\ KindOf(plot_at(this.land, tile)) # "Town" =>
                    added = 0 /\ draws = 2 * MaxAttempts * slots
              /\ Len(this'.structures) <= 4 * frame'
              /\ Len(this'.structures) <= 4 * BuildingTiles]_vars

\* place_buildings has gone over a town cell where one slot appended a
\* Structure and another gave up after its 25 attempts
C23_Witness ==
    /\ pc = "place_buildings"
    /\ frame > 0
    /\ this.town # None
    /\ LET tile == VAdd(this.town[1].base_tile, Spiral2d(frame - 1))
       IN  /\ KindOf(plot_at(this.land, tile)) = "Town"
           /\ Cardinality(StructuresIn(tile)) = 1
    /\ Len(this.structures) >= 3

\* The cell that the position of a structure lies in
StructureTile(structure) ==
    <<structure.pos[1] \div AREA_SIZE, structure.pos[2] \div AREA_SIZE>>

\* C24: the structure list holds at most one Keep; if it holds one, the Keep
\* is the first element of the list and stands on the base tile of the town,
\* and every other Structure is a House.
C24_OneKeepFirst ==
    \A i \in 1..Len(this.structures) :
        IF this.structures[i].kind = "Keep"
        THEN /\ i = 1
             /\ this.town # None
             /\ StructureTile(this.structures[i]) = this.town[1].base_tile
        ELSE this.structures[i].kind = "House"

\* generate has returned a list of a Keep and several Houses, in a run whose
\* first cell had further slots after the one of the Keep
C24_Witness ==
    /\ Generated
    /\ Len(this.structures) >= 3
    /\ this.structures[1].kind = "Keep"
    /\ \A i \in 2..Len(this.structures) :
          /\ this.structures[i].kind = "House"
          /\ StructureTile(this.structures[i]) # this.town[1].base_tile

\* The tile carries no marker: its four way slots and its tower slot are empty
NoMarkers(tile) == tile.ways = <<None, None, None, None>> /\ tile.tower = None

\* C28: no tile of the Settlement that generate returns carries a way marker or a
\* tower marker, and none does in any state of the pipeline before.
C28_NoMarkersAfterGenerate ==
    /\ \A pos \in DOMAIN this.land.tiles : NoMarkers(this.land.tiles[pos])
    /\ Generated => \A pos \in DOMAIN ret[1].land.tiles : NoMarkers(ret[1].land.tiles[pos])

\* generate has returned a Settlement of a hundred tiles or more, hazard, field and
\* town tiles among them, and with structures
C28_Witness ==
    /\ Generated
    /\ ret[1].structures # <<>>
    /\ \A kind \in {"Hazard", "Field", "Town"} :
          \E pos \in DOMAIN ret[1].land.tiles : KindOf(plot_at(ret[1].land, pos)) = kind
    /\ Cardinality(DOMAIN ret[1].land.tiles) >= 100

----------------------------------------------------------------------------
(* SpecBuild: place_buildings on its own, over lands in which town cells   *)
(* carry way markers and with or without a town.                           *)

\* The cells of the town of the lands built here
BuildCoords == (-1..1) \X (-1..1)

\* The plot arena: the hazard, the plot of the district and a field
BuildPlots == <<PlotHazard, PlotTown(Some(1)), PlotField(1, 0, "Corn")>>

\* The land in which the cells of BuildCoords are town cells, but for (0, 1),
\* which is a field, and (-1, 0), which holds no tile; the cells of `paths`
\* carry a Path marker, and the cell (-1, -1) a Wall marker
BuildLand(paths) ==
    [tiles |-> [pos \in BuildCoords \ {<<-1, 0>>} |->
                   [plot |-> IF pos = <<0, 1>> THEN 3 ELSE 2,
                    ways |-> <<None, None,
                               IF pos \in paths THEN Some("Path")
                               ELSE IF pos = <<-1, -1>> THEN Some("Wall") ELSE None,
                               None>>,
                    tower |-> None]],
     plots |-> BuildPlots,
     hazard |-> 1]

\* The town about the cell (0, 0), of one district
BuildTown ==
    [base_tile |-> <<0, 0>>,
     districts |-> << [aabr |-> [min |-> <<-1, -1>>, max |-> <<2, 2>>], alt |-> 0] >>]

\* The state in which generate calls place_buildings
BuildInit ==
    \E paths \in SUBSET {<<0, 0>>, <<0, -1>>}, town \in {None, Some(BuildTown)},
       sim \in {None, Some("river_west")}, seed \in 0..MaxSeed :
        LET rng == [seed |-> seed, n |-> 0]
            settlement == [SettlementOf(BuildLand(paths)) EXCEPT
                              !.town = town,
                              !.origin = IF sim = None THEN <<0, 0>> ELSE <<40, 0>>]
        IN  /\ this = settlement
            /\ ctx = [sim |-> sim, rng |-> rng, order |-> "asc"]
            /\ twin = [this |-> settlement, rng |-> rng, order |-> "desc"]
            /\ pc = "place_buildings"
            /\ call = None
            /\ frame = 0
            /\ ret = None

BuildNext ==
    \/ PlaceBuildings
    \/ PlaceBuildingsReturn

SpecBuild == BuildInit /\ [][BuildNext]_vars

\* C25: every Structure of the list stands at a position whose tile exists,
\* has a Town plot and carries no Path marker (place_buildings changes no
\* tile, so the tile is as it was when the Structure was appended); when no
\* town was placed the list stays empty.
C25_StructuresOnFreeTownTiles ==
    /\ \A i \in 1..Len(this.structures) :
          LET tile == tile_at(this.land, StructureTile(this.structures[i]))
          IN  /\ tile # None
              /\ this.land.plots[tile[1].plot].kind = "Town"
              /\ ~TileContains(tile[1], "Path")
    /\ this.town = None => this.structures = <<>>

\* place_buildings has returned with structures, one of them on the town cell
\* with a Wall marker, from a land with a town cell that carries a Path marker,
\* a field and a cell without tile among the cells it went over
C25_Witness ==
    /\ Generated
    /\ this.structures # <<>>
    /\ \E i \in 1..Len(this.structures) : StructureTile(this.structures[i]) = <<-1, -1>>
    /\ \E pos \in DOMAIN this.land.tiles : TileContains(this.land.tiles[pos], "Path")
    /\ <<-1, 0>> \notin DOMAIN this.land.tiles
    /\ KindOf(plot_at(this.land, <<0, 1>>)) = "Field"

----------------------------------------------------------------------------
(* SpecTown: generate from place_farms on, with the searches of place_town *)
(* run one position of the spiral at a time.  The land it starts from is   *)
(* the one designate_from_world leaves in a world that hosts everywhere    *)
(* when the draw gen_range(0, 16) is 0 at every cell but those of every    *)
(* other cell of a square of 8 x 8 cells.  Town::generate is outside src/  *)
(* and its interface fixes no extent: the half side of the town is drawn.  *)

\* The positions of the spiral a search of SpecTown follows before its counter
\* starts again: those of the layers 0..17, which hold every tile of the land
MaxTownIndex == 1225

\* The half sides of the towns drawn
TownRadii == {TownRadius, TownRadius + 1}

\* The centres of the squares drawn
TownCentres == {<<0, 0>>, <<-1, 1>>, <<1, 1>>, <<2, 0>>}

\* The cells designate_from_world goes over
DesignatedCells ==
    {tile \in (-TileRadius..TileRadius) \X (-TileRadius..TileRadius) : DesignateTakes(tile)}

\* Every other cell of the square of 8 x 8 cells about centre, centre among them
CheckerCells(centre) ==
    {pos \in ((centre[1] - 4)..(centre[1] + 3)) \X ((centre[2] - 4)..(centre[2] + 3)) :
        (pos[1] - centre[1] + pos[2] - centre[2]) % 2 = 0}

\* The land after designate_from_world that marked every cell but those of `free`
DesignatedLand(free) ==
    [tiles |-> [pos \in DesignatedCells \ free |-> Tile(1)],
     plots |-> <<PlotHazard>>,
     hazard |-> 1]

\* generate has called designate_from_world and calls place_farms
TownInit ==
    \E centre \in TownCentres, radius \in TownRadii, seed \in 0..MaxSeed :
        LET rng == [seed |-> seed, n |-> 0]
            settlement == [SettlementNew(<<0, 0>>, rng) EXCEPT
                              !.land = DesignatedLand(CheckerCells(centre))]
            after == Drawn(rng, 4 + Cardinality(DesignatedCells))
        IN  /\ this = settlement
            /\ ctx = [sim |-> Some("accept_all"), rng |-> after, order |-> "asc"]
            /\ twin = [this |-> settlement, rng |-> after, order |-> "desc"]
            /\ pc = "place_farms"
            /\ call = [radius |-> radius, origin |-> <<0, 0>>, i |-> 0]
            /\ frame = 0
            /\ ret = None

\* let mut origin = Vec2::new(ctx.rng.gen_range(-2, 3), ctx.rng.gen_range(-2, 3))
TownEnter ==
    /\ pc = "place_town"
    /\ pc' = "place_town_find"
    /\ call' = [call EXCEPT !.origin = <<GenRange(ctx.rng, -2, 3),
                                         GenRange(Drawn(ctx.rng, 1), -2, 3)>>,
                            !.i = 0]
    /\ ctx' = [ctx EXCEPT !.rng = Drawn(@, 2)]
    /\ twin' = [twin EXCEPT !.rng = Drawn(@, 2)]
    /\ frame' = 0
    /\ UNCHANGED <<this, ret>>

\* The predicate of the search of place_town: Some(Plot::Field) or Some(Plot::Dirt)
FieldOrDirt == {"Field", "Dirt"}

\* find_tile_near of place_town: the position does not match, the search goes on
TownFindStep ==
    /\ pc = "place_town_find"
    /\ call.i < PLOT_COUNT
    /\ ~FindMatches(this.land, FieldOrDirt, FindVisits(call.origin, frame))
    /\ frame' = (frame + 1) % MaxTownIndex
    /\ UNCHANGED <<this, ctx, twin, pc, call, ret>>

\* if i == 0 { let town = Town::generate(..); for (id, district) in .. ; self.town = Some(town) }
TownPlaced(run, base_tile, radius) ==
    LET gen == TownOfRadius(base_tile, run.rng, radius)
    IN  [run EXCEPT !.this.land = PlaceDistricts(@, gen.town.districts, 1),
                    !.this.town = Some(gen.town),
                    !.rng = gen.rng]

\* find_tile_near of place_town returns Some(base_tile): the body of the if let
TownFound ==
    /\ pc = "place_town_find"
    /\ call.i < PLOT_COUNT
    /\ FindMatches(this.land, FieldOrDirt, FindVisits(call.origin, frame))
    /\ LET base_tile == FindVisits(call.origin, frame)
       IN  IF call.i = 0
           THEN /\ Advance(TownPlaced(Run, base_tile, call.radius),
                           TownPlaced(twin, base_tile, call.radius))
                /\ call' = [call EXCEPT !.origin = base_tile, !.i = 1]
           ELSE /\ call' = [call EXCEPT !.i = @ + 1]
                /\ UNCHANGED <<this, ctx, twin>>
    /\ frame' = 0
    /\ UNCHANGED <<pc, ret>>

\* for i in 0..PLOT_COUNT is over
TownReturn ==
    /\ pc = "place_town_find"
    /\ call.i = PLOT_COUNT
    /\ pc' = "place_buildings"
    /\ frame' = 0
    /\ UNCHANGED <<this, ctx, twin, call, ret>>

TownNext ==
    \/ PlaceFarm
    \/ PlaceFarmsReturn
    \/ TownEnter
    \/ TownFindStep
    \/ TownFound
    \/ TownReturn
    \/ PlaceBuildings
    \/ PlaceBuildingsReturn

SpecTown == TownInit /\ [][TownNext]_vars

\* A tile of the land holds a Field or a Dirt plot
FieldOrDirtTile(land) ==
    \E pos \in DOMAIN land.tiles : KindOf(plot_at(land, pos)) \in FieldOrDirt

\* C27 as claimed: every search of generate has a coordinate that satisfies it, so
\* generate terminates; whenever place_town searches for a Field-or-Dirt tile, a
\* tile of the land holds a Field or a Dirt plot.
C27_SearchesAreSatisfied ==
    (pc = "place_town_find" /\ call.i < PLOT_COUNT) => FieldOrDirtTile(this.land)

====
